---------------------------- MODULE Spec2Model ----------------------------
(***************************************************************************)
(* Model of the OpenCL information library (cliInfo_* API, lib/clInfo.cpp) *)
(* and of the driver it queries.  The document (cliInfo) owns a Pool and a *)
(* root pointer; cliInfo_Gather walks the driver's platforms and devices   *)
(* and builds a tree of cliNode records in pool memory.                    *)
(*                                                                         *)
(* Conventions                                                             *)
(*   - C strings and raw attribute buffers are sequences of byte codes;    *)
(*     a C string ends with NUL (0).  A code >= RunBase stands for a run   *)
(*     of (code - RunBase) filler characters, so that a string longer than *)
(*     a pool block can be written down.                                   *)
(*   - String literals of the program (node names, property names) are     *)
(*     TLA+ strings; Chars gives their byte codes where the code compares  *)
(*     them or copies them.                                                *)
(*   - A pointer is an address in pool memory, NULL is 0.  A linked list   *)
(*     of cliProperty / cliValue is a sequence; a null list is <<>>.       *)
(***************************************************************************)
EXTENDS Integers, Sequences, FiniteSets, TLC

NULL == 0

\* enum cliStatus
CLI_Success == 0
CLI_Error == 1

\* Bounds of the explored driver worlds and call sequences
MaxPlatforms == 2
MaxDevices == 2
MaxMajor == 2
MaxMinor == 3
MaxFormats == 2
MaxFaultIndex == 2
MaxGathers == 2
MaxBlocks == 2

\* the longest text handed to a string decoder on its own
MaxLen == 4

\* the most superfluous spaces in a version string
MaxSpaces == 15

\* the largest of the small masks handed to a bitfield decoder, and the
\* highest bit position of any mask
MaxMask == 63
MaxBit == 13

Min(a, b) == IF a < b THEN a ELSE b

-----------------------------------------------------------------------------
(* Pool<BlockSize>                                                         *)

BlockSize == 1048576

\* sizeof of the three POD types of clInfo.h on an LP64 target
SizeofNode == 40
SizeofProperty == 40
SizeofValue == 16

\* Pool members after construction: no block, offset == BlockSize
EmptyPool == [blocks |-> 0, offset |-> BlockSize]

\* address of byte `offset` of the block number `block` (blocks count from 1)
Addr(block, offset) == block * BlockSize + offset

\* a pool whose Allocate accepts every size
AllocateThrows_Never(size) == FALSE

\* if (size < 0 || size >= BlockSize) throw std::bad_alloc ()
AllocateThrows(size) == size < 0 \/ size >= BlockSize

\* a pool that advances its offset by the size asked for, without rounding
PoolAllocate_Unaligned(pool, size) ==
  LET p1 == IF pool.offset + size > BlockSize
              THEN [blocks |-> pool.blocks + 1, offset |-> 0]
              ELSE pool
  IN  [pool |-> [p1 EXCEPT !.offset = @ + size],
       result |-> Addr(p1.blocks, p1.offset)]

\* Pool::Allocate (int size), for a size that does not throw:
\* the pool after the call and the returned pointer
PoolAllocate(pool, size) ==
  LET p1 == IF pool.offset + size > BlockSize
              THEN [blocks |-> pool.blocks + 1, offset |-> 0]
              ELSE pool
      aligned == ((size + 7) \div 8) * 8
  IN  [pool |-> [p1 EXCEPT !.offset = @ + aligned],
       result |-> Addr(p1.blocks, p1.offset)]

-----------------------------------------------------------------------------
(* struct Version                                                          *)

Version(major, minor) == [major |-> major, minor |-> minor]

VersionEq(a, b) == a.major = b.major /\ a.minor = b.minor

VersionNe(a, b) == a.major # b.major \/ a.minor # b.minor

VersionLt(a, b) == IF a.major # b.major THEN a.major < b.major ELSE a.minor < b.minor

VersionLe(a, b) == IF a.major # b.major THEN a.major < b.major ELSE a.minor <= b.minor

\* a comparison that looks at the major number only
VersionGe_MajorOnly(a, b) == a.major >= b.major

VersionGe(a, b) == IF a.major # b.major THEN a.major > b.major ELSE a.minor >= b.minor

VersionGt(a, b) == IF a.major # b.major THEN a.major > b.major ELSE a.minor > b.minor

-----------------------------------------------------------------------------
(* C strings                                                               *)

NUL == 0
SPACE == 32
DOT == 46
RunBase == 256

\* the filler run of n characters
Run(n) == RunBase + n

Width(c) == IF c >= RunBase THEN c - RunBase ELSE 1

\* *(s + i - 1): reading at or past the end of the buffer yields NUL
CharAt(s, i) == IF i >= 1 /\ i <= Len(s) THEN s[i] ELSE NUL

RECURSIVE ScanTo(_, _, _)
\* while (*s != c) ++s;  from position i; stops at the end of the buffer
ScanTo(s, i, c) ==
  IF i > Len(s) THEN i
  ELSE IF s[i] = c THEN i
  ELSE ScanTo(s, i + 1, c)

RECURSIVE SumWidth(_, _, _)
SumWidth(s, i, j) == IF i > j THEN 0 ELSE Width(s[i]) + SumWidth(s, i + 1, j)

\* the characters of the C string that starts at position i (without the NUL)
CStringAt(s, i) == SubSeq(s, i, ScanTo(s, i, NUL) - 1)

\* ::strlen
StrLen(str) == SumWidth(str, 1, Len(str))

IsDigit(c) == c >= 48 /\ c <= 57

IsSpace(c) == c = SPACE \/ (c >= 9 /\ c <= 13)

RECURSIVE SkipSpace(_, _)
SkipSpace(s, i) == IF IsSpace(CharAt(s, i)) THEN SkipSpace(s, i + 1) ELSE i

RECURSIVE AtoiDigits(_, _, _)
AtoiDigits(s, i, acc) ==
  IF IsDigit(CharAt(s, i)) THEN AtoiDigits(s, i + 1, acc * 10 + (CharAt(s, i) - 48)) ELSE acc

\* std::atoi: leading white space, an optional sign, then decimal digits
Atoi(s) ==
  LET i == SkipSpace(s, 1)
      c == CharAt(s, i)
  IN  IF c = 45 THEN 0 - AtoiDigits(s, i + 1, 0)
      ELSE IF c = 43 THEN AtoiDigits(s, i + 1, 0)
      ELSE AtoiDigits(s, i, 0)

RECURSIVE StrcmpFrom(_, _, _)
StrcmpFrom(a, b, i) ==
  LET ca == CharAt(a, i)
      cb == CharAt(b, i)
  IN  IF ca # cb THEN ca - cb
      ELSE IF ca = NUL THEN 0
      ELSE StrcmpFrom(a, b, i + 1)

\* ::strcmp on two NUL-terminated strings
Strcmp(a, b) == StrcmpFrom(a, b, 1)

\* char minorVersion [16], majorVersion [16]
VersionBytes == 16

\* assert ((s-majorStart) < 16) and assert ((s-minorStart) < 16): the
\* characters copied into each array leave room for its NUL
FieldsFit(s) ==
  /\ ScanTo(s, ScanTo(s, 1, SPACE) + 1, DOT) - (ScanTo(s, 1, SPACE) + 1) < VersionBytes
  /\ ScanTo(s, ScanTo(s, ScanTo(s, 1, SPACE) + 1, DOT) + 1, SPACE)
       - (ScanTo(s, ScanTo(s, 1, SPACE) + 1, DOT) + 1) < VersionBytes

\* Version ParseVersion (const char* s)
ParseVersion(s) ==
  LET sp1 == ScanTo(s, 1, SPACE)
      majorStart == sp1 + 1
      dot == ScanTo(s, majorStart, DOT)
      majorVersion == SubSeq(s, majorStart, dot - 1)
      minorStart == dot + 1
      sp2 == ScanTo(s, minorStart, SPACE)
      minorVersion == SubSeq(s, minorStart, sp2 - 1)
  IN  Version(Atoi(majorVersion), Atoi(minorVersion))

-----------------------------------------------------------------------------
(* Attribute tables                                                        *)

\* PropertyFetcher<T>: info is the attribute id (NIV_VALUESTRING gives the
\* id and its name from one token), cf the decoder, h the hint ("" = none)
PropertyFetcher(n, cf, type, h) ==
  [info |-> n, n |-> n, cf |-> cf, type |-> type, h |-> h]

infos_CL_shared ==
  <<
    PropertyFetcher("CL_DEVICE_ADDRESS_BITS", "CreateUInt", "Int64", "The default compute device address space size specified as an unsigned integer value in bits."),
    PropertyFetcher("CL_DEVICE_AVAILABLE", "CreateBool", "Bool", ""),
    PropertyFetcher("CL_DEVICE_COMPILER_AVAILABLE", "CreateBool", "Bool", ""),
    PropertyFetcher("CL_DEVICE_DOUBLE_FP_CONFIG", "CreateDeviceFPConfig", "String", ""),
    PropertyFetcher("CL_DEVICE_ENDIAN_LITTLE", "CreateBool", "Bool", ""),
    PropertyFetcher("CL_DEVICE_ERROR_CORRECTION_SUPPORT", "CreateBool", "Bool", ""),
    PropertyFetcher("CL_DEVICE_EXECUTION_CAPABILITIES", "CreateDeviceExecCapabilities", "String", ""),
    PropertyFetcher("CL_DEVICE_EXTENSIONS", "CreateCharList", "String", ""),
    PropertyFetcher("CL_DEVICE_GLOBAL_MEM_CACHE_SIZE", "CreateULong", "Int64", "Size of global memory cache in bytes."),
    PropertyFetcher("CL_DEVICE_GLOBAL_MEM_CACHE_TYPE", "CreateDeviceMemCacheType", "String", ""),
    PropertyFetcher("CL_DEVICE_GLOBAL_MEM_CACHELINE_SIZE", "CreateUInt", "Int64", "Size of global memory cache line in bytes."),
    PropertyFetcher("CL_DEVICE_GLOBAL_MEM_SIZE", "CreateULong", "Int64", "Size of global device memory in bytes."),
    PropertyFetcher("CL_DEVICE_IMAGE2D_MAX_HEIGHT", "CreateSizeT", "Int64", ""),
    PropertyFetcher("CL_DEVICE_IMAGE2D_MAX_WIDTH", "CreateSizeT", "Int64", ""),
    PropertyFetcher("CL_DEVICE_IMAGE3D_MAX_DEPTH", "CreateSizeT", "Int64", ""),
    PropertyFetcher("CL_DEVICE_IMAGE3D_MAX_HEIGHT", "CreateSizeT", "Int64", ""),
    PropertyFetcher("CL_DEVICE_IMAGE3D_MAX_WIDTH", "CreateSizeT", "Int64", ""),
    PropertyFetcher("CL_DEVICE_IMAGE_SUPPORT", "CreateBool", "Bool", ""),
    PropertyFetcher("CL_DEVICE_LOCAL_MEM_SIZE", "CreateULong", "Int64", "Size of local memory arena in bytes. The minimum value is 32 KB for devices that are not of type CL_DEVICE_TYPE_CUSTOM."),
    PropertyFetcher("CL_DEVICE_LOCAL_MEM_TYPE", "CreateDeviceLocalMemType", "String", "Type of local memory supported. This can be set to CL_LOCAL implying dedicated local memory storage such as SRAM, or CL_GLOBAL. For custom devices, CL_NONE can also be returned indicating no local memory support."),
    PropertyFetcher("CL_DEVICE_MAX_CLOCK_FREQUENCY", "CreateUInt", "Int64", "Maximum configured clock frequency of the device in MHz."),
    PropertyFetcher("CL_DEVICE_MAX_COMPUTE_UNITS", "CreateUInt", "Int64", "The number of parallel compute units on the OpenCL device. A work-group executes on a single compute unit. The minimum value is 1."),
    PropertyFetcher("CL_DEVICE_MAX_CONSTANT_ARGS", "CreateUInt", "Int64", ""),
    PropertyFetcher("CL_DEVICE_MAX_CONSTANT_BUFFER_SIZE", "CreateULong", "Int64", "Max size in bytes of a constant buffer allocation. The minimum value is 64 KB for devices that are not of type CL_DEVICE_TYPE_CUSTOM."),
    PropertyFetcher("CL_DEVICE_MAX_MEM_ALLOC_SIZE", "CreateULong", "Int64", "Max size of memory object allocation in bytes. The minimum value is max (1/4th of CL_DEVICE_GLOBAL_MEM_SIZE, 128*1024*1024) for devices that are not of type CL_DEVICE_TYPE_CUSTOM."),
    PropertyFetcher("CL_DEVICE_MAX_PARAMETER_SIZE", "CreateSizeT", "Int64", "Max size in bytes of the arguments that can be passed to a kernel. The minimum value is 1024 for devices that are not of type CL_DEVICE_TYPE_CUSTOM. For this minimum value, only a maximum of 128 arguments can be passed to a kernel."),
    PropertyFetcher("CL_DEVICE_MAX_READ_IMAGE_ARGS", "CreateUInt", "Int64", ""),
    PropertyFetcher("CL_DEVICE_MAX_SAMPLERS", "CreateUInt", "Int64", ""),
    PropertyFetcher("CL_DEVICE_MAX_WORK_GROUP_SIZE", "CreateSizeT", "Int64", ""),
    PropertyFetcher("CL_DEVICE_MAX_WORK_ITEM_DIMENSIONS", "CreateUInt", "Int64", ""),
    PropertyFetcher("CL_DEVICE_MAX_WORK_ITEM_SIZES", "CreateSizeTList", "Int64", ""),
    PropertyFetcher("CL_DEVICE_MAX_WRITE_IMAGE_ARGS", "CreateUInt", "Int64", ""),
    PropertyFetcher("CL_DEVICE_MEM_BASE_ADDR_ALIGN", "CreateUInt", "Int64", ""),
    PropertyFetcher("CL_DEVICE_NAME", "CreateChar", "String", ""),
    PropertyFetcher("CL_DEVICE_OPENCL_C_VERSION", "CreateChar", "String", ""),
    PropertyFetcher("CL_DEVICE_PREFERRED_VECTOR_WIDTH_CHAR", "CreateUInt", "Int64", ""),
    PropertyFetcher("CL_DEVICE_PREFERRED_VECTOR_WIDTH_SHORT", "CreateUInt", "Int64", ""),
    PropertyFetcher("CL_DEVICE_PREFERRED_VECTOR_WIDTH_INT", "CreateUInt", "Int64", ""),
    PropertyFetcher("CL_DEVICE_PREFERRED_VECTOR_WIDTH_LONG", "CreateUInt", "Int64", ""),
    PropertyFetcher("CL_DEVICE_PREFERRED_VECTOR_WIDTH_FLOAT", "CreateUInt", "Int64", ""),
    PropertyFetcher("CL_DEVICE_PREFERRED_VECTOR_WIDTH_DOUBLE", "CreateUInt", "Int64", ""),
    PropertyFetcher("CL_DEVICE_PREFERRED_VECTOR_WIDTH_HALF", "CreateUInt", "Int64", ""),
    PropertyFetcher("CL_DEVICE_PROFILE", "CreateChar", "String", ""),
    PropertyFetcher("CL_DEVICE_PROFILING_TIMER_RESOLUTION", "CreateSizeT", "Int64", ""),
    PropertyFetcher("CL_DEVICE_SINGLE_FP_CONFIG", "CreateDeviceFPConfig", "String", ""),
    PropertyFetcher("CL_DEVICE_TYPE", "CreateDeviceType", "String", ""),
    PropertyFetcher("CL_DEVICE_VENDOR", "CreateChar", "String", ""),
    PropertyFetcher("CL_DEVICE_VENDOR_ID", "CreateUInt", "Int64", ""),
    PropertyFetcher("CL_DEVICE_VERSION", "CreateChar", "String", ""),
    PropertyFetcher("CL_DRIVER_VERSION", "CreateChar", "String", "")
  >>

infos_CL_1_0 ==
  <<
    PropertyFetcher("CL_DEVICE_MEM_BASE_ADDR_ALIGN", "CreateUInt", "Int64", "")
  >>

infos_CL_1_1 ==
  <<
    PropertyFetcher("CL_DEVICE_HOST_UNIFIED_MEMORY", "CreateBool", "Bool", ""),
    PropertyFetcher("CL_DEVICE_MIN_DATA_TYPE_ALIGN_SIZE", "CreateUInt", "Int64", ""),
    PropertyFetcher("CL_DEVICE_NATIVE_VECTOR_WIDTH_CHAR", "CreateUInt", "Int64", ""),
    PropertyFetcher("CL_DEVICE_NATIVE_VECTOR_WIDTH_SHORT", "CreateUInt", "Int64", ""),
    PropertyFetcher("CL_DEVICE_NATIVE_VECTOR_WIDTH_INT", "CreateUInt", "Int64", ""),
    PropertyFetcher("CL_DEVICE_NATIVE_VECTOR_WIDTH_LONG", "CreateUInt", "Int64", ""),
    PropertyFetcher("CL_DEVICE_NATIVE_VECTOR_WIDTH_FLOAT", "CreateUInt", "Int64", ""),
    PropertyFetcher("CL_DEVICE_NATIVE_VECTOR_WIDTH_DOUBLE", "CreateUInt", "Int64", ""),
    PropertyFetcher("CL_DEVICE_NATIVE_VECTOR_WIDTH_HALF", "CreateUInt", "Int64", "")
  >>

infos_CL_1_2 ==
  <<
    PropertyFetcher("CL_DEVICE_BUILT_IN_KERNELS", "CreateCharList", "String", ""),
    PropertyFetcher("CL_DEVICE_IMAGE_BASE_ADDRESS_ALIGNMENT", "CreateUInt", "Int64", ""),
    PropertyFetcher("CL_DEVICE_IMAGE_MAX_ARRAY_SIZE", "CreateSizeT", "Int64", ""),
    PropertyFetcher("CL_DEVICE_IMAGE_MAX_BUFFER_SIZE", "CreateSizeT", "Int64", ""),
    PropertyFetcher("CL_DEVICE_IMAGE_PITCH_ALIGNMENT", "CreateUInt", "Int64", ""),
    PropertyFetcher("CL_DEVICE_IMAGE_SUPPORT", "CreateBool", "Bool", ""),
    PropertyFetcher("CL_DEVICE_LINKER_AVAILABLE", "CreateBool", "Bool", ""),
    PropertyFetcher("CL_DEVICE_NATIVE_VECTOR_WIDTH_CHAR", "CreateUInt", "Int64", ""),
    PropertyFetcher("CL_DEVICE_NATIVE_VECTOR_WIDTH_SHORT", "CreateUInt", "Int64", ""),
    PropertyFetcher("CL_DEVICE_NATIVE_VECTOR_WIDTH_INT", "CreateUInt", "Int64", ""),
    PropertyFetcher("CL_DEVICE_NATIVE_VECTOR_WIDTH_LONG", "CreateUInt", "Int64", ""),
    PropertyFetcher("CL_DEVICE_NATIVE_VECTOR_WIDTH_FLOAT", "CreateUInt", "Int64", ""),
    PropertyFetcher("CL_DEVICE_NATIVE_VECTOR_WIDTH_DOUBLE", "CreateUInt", "Int64", ""),
    PropertyFetcher("CL_DEVICE_NATIVE_VECTOR_WIDTH_HALF", "CreateUInt", "Int64", ""),
    PropertyFetcher("CL_DEVICE_PARTITION_AFFINITY_DOMAIN", "CreateDeviceAffinityDomain", "String", ""),
    PropertyFetcher("CL_DEVICE_PARTITION_MAX_SUB_DEVICES", "CreateUInt", "Int64", ""),
    PropertyFetcher("CL_DEVICE_PARTITION_PROPERTIES", "CreateDevicePartitionProperty", "String", ""),
    PropertyFetcher("CL_DEVICE_PARTITION_TYPE", "CreateDevicePartitionProperty", "String", ""),
    PropertyFetcher("CL_DEVICE_PRINTF_BUFFER_SIZE", "CreateSizeT", "Int64", ""),
    PropertyFetcher("CL_DEVICE_QUEUE_PROPERTIES", "CreateCommandQueueProperties", "String", "")
  >>

infos_CL_2_0 ==
  <<
    PropertyFetcher("CL_DEVICE_GLOBAL_VARIABLE_PREFERRED_TOTAL_SIZE", "CreateSizeT", "Int64", ""),
    PropertyFetcher("CL_DEVICE_MAX_GLOBAL_VARIABLE_SIZE", "CreateSizeT", "Int64", ""),
    PropertyFetcher("CL_DEVICE_MAX_ON_DEVICE_EVENTS", "CreateUInt", "Int64", ""),
    PropertyFetcher("CL_DEVICE_MAX_ON_DEVICE_QUEUES", "CreateUInt", "Int64", ""),
    PropertyFetcher("CL_DEVICE_MAX_PIPE_ARGS", "CreateUInt", "Int64", ""),
    PropertyFetcher("CL_DEVICE_MAX_READ_WRITE_IMAGE_ARGS", "CreateUInt", "Int64", ""),
    PropertyFetcher("CL_DEVICE_PIPE_MAX_ACTIVE_RESERVATIONS", "CreateUInt", "Int64", ""),
    PropertyFetcher("CL_DEVICE_PIPE_MAX_PACKET_SIZE", "CreateUInt", "Int64", ""),
    PropertyFetcher("CL_DEVICE_PREFERRED_GLOBAL_ATOMIC_ALIGNMENT", "CreateUInt", "Int64", ""),
    PropertyFetcher("CL_DEVICE_PREFERRED_INTEROP_USER_SYNC", "CreateBool", "Bool", ""),
    PropertyFetcher("CL_DEVICE_PREFERRED_LOCAL_ATOMIC_ALIGNMENT", "CreateUInt", "Int64", ""),
    PropertyFetcher("CL_DEVICE_PREFERRED_PLATFORM_ATOMIC_ALIGNMENT", "CreateUInt", "Int64", ""),
    PropertyFetcher("CL_DEVICE_QUEUE_ON_DEVICE_MAX_SIZE", "CreateUInt", "Int64", ""),
    PropertyFetcher("CL_DEVICE_QUEUE_ON_DEVICE_PREFERRED_SIZE", "CreateUInt", "Int64", ""),
    PropertyFetcher("CL_DEVICE_QUEUE_ON_DEVICE_PROPERTIES", "CreateCommandQueueProperties", "String", ""),
    PropertyFetcher("CL_DEVICE_QUEUE_ON_HOST_PROPERTIES", "CreateCommandQueueProperties", "String", ""),
    PropertyFetcher("CL_DEVICE_SVM_CAPABILITIES", "CreateDeviceSVMCapabilities", "String", "")
  >>

PlatformInfos ==
  <<
    PropertyFetcher("CL_PLATFORM_PROFILE", "CreateChar", "String", ""),
    PropertyFetcher("CL_PLATFORM_VERSION", "CreateChar", "String", ""),
    PropertyFetcher("CL_PLATFORM_NAME", "CreateChar", "String", ""),
    PropertyFetcher("CL_PLATFORM_VENDOR", "CreateChar", "String", ""),
    PropertyFetcher("CL_PLATFORM_EXTENSIONS", "CreateCharList", "String", "")
  >>
\* the bytes of a string literal of the program (without the NUL)
Chars(n) ==
  CASE n = "CL_DEVICE_ADDRESS_BITS" -> <<67,76,95,68,69,86,73,67,69,95,65,68,68,82,69,83,83,95,66,73,84,83>>
    [] n = "CL_DEVICE_AVAILABLE" -> <<67,76,95,68,69,86,73,67,69,95,65,86,65,73,76,65,66,76,69>>
    [] n = "CL_DEVICE_COMPILER_AVAILABLE" -> <<67,76,95,68,69,86,73,67,69,95,67,79,77,80,73,76,69,82,95,65,86,65,73,76,65,66,76,69>>
    [] n = "CL_DEVICE_DOUBLE_FP_CONFIG" -> <<67,76,95,68,69,86,73,67,69,95,68,79,85,66,76,69,95,70,80,95,67,79,78,70,73,71>>
    [] n = "CL_DEVICE_ENDIAN_LITTLE" -> <<67,76,95,68,69,86,73,67,69,95,69,78,68,73,65,78,95,76,73,84,84,76,69>>
    [] n = "CL_DEVICE_ERROR_CORRECTION_SUPPORT" -> <<67,76,95,68,69,86,73,67,69,95,69,82,82,79,82,95,67,79,82,82,69,67,84,73,79,78,95,83,85,80,80,79,82,84>>
    [] n = "CL_DEVICE_EXECUTION_CAPABILITIES" -> <<67,76,95,68,69,86,73,67,69,95,69,88,69,67,85,84,73,79,78,95,67,65,80,65,66,73,76,73,84,73,69,83>>
    [] n = "CL_DEVICE_EXTENSIONS" -> <<67,76,95,68,69,86,73,67,69,95,69,88,84,69,78,83,73,79,78,83>>
    [] n = "CL_DEVICE_GLOBAL_MEM_CACHE_SIZE" -> <<67,76,95,68,69,86,73,67,69,95,71,76,79,66,65,76,95,77,69,77,95,67,65,67,72,69,95,83,73,90,69>>
    [] n = "CL_DEVICE_GLOBAL_MEM_CACHE_TYPE" -> <<67,76,95,68,69,86,73,67,69,95,71,76,79,66,65,76,95,77,69,77,95,67,65,67,72,69,95,84,89,80,69>>
    [] n = "CL_DEVICE_GLOBAL_MEM_CACHELINE_SIZE" -> <<67,76,95,68,69,86,73,67,69,95,71,76,79,66,65,76,95,77,69,77,95,67,65,67,72,69,76,73,78,69,95,83,73,90,69>>
    [] n = "CL_DEVICE_GLOBAL_MEM_SIZE" -> <<67,76,95,68,69,86,73,67,69,95,71,76,79,66,65,76,95,77,69,77,95,83,73,90,69>>
    [] n = "CL_DEVICE_IMAGE2D_MAX_HEIGHT" -> <<67,76,95,68,69,86,73,67,69,95,73,77,65,71,69,50,68,95,77,65,88,95,72,69,73,71,72,84>>
    [] n = "CL_DEVICE_IMAGE2D_MAX_WIDTH" -> <<67,76,95,68,69,86,73,67,69,95,73,77,65,71,69,50,68,95,77,65,88,95,87,73,68,84,72>>
    [] n = "CL_DEVICE_IMAGE3D_MAX_DEPTH" -> <<67,76,95,68,69,86,73,67,69,95,73,77,65,71,69,51,68,95,77,65,88,95,68,69,80,84,72>>
    [] n = "CL_DEVICE_IMAGE3D_MAX_HEIGHT" -> <<67,76,95,68,69,86,73,67,69,95,73,77,65,71,69,51,68,95,77,65,88,95,72,69,73,71,72,84>>
    [] n = "CL_DEVICE_IMAGE3D_MAX_WIDTH" -> <<67,76,95,68,69,86,73,67,69,95,73,77,65,71,69,51,68,95,77,65,88,95,87,73,68,84,72>>
    [] n = "CL_DEVICE_IMAGE_SUPPORT" -> <<67,76,95,68,69,86,73,67,69,95,73,77,65,71,69,95,83,85,80,80,79,82,84>>
    [] n = "CL_DEVICE_LOCAL_MEM_SIZE" -> <<67,76,95,68,69,86,73,67,69,95,76,79,67,65,76,95,77,69,77,95,83,73,90,69>>
    [] n = "CL_DEVICE_LOCAL_MEM_TYPE" -> <<67,76,95,68,69,86,73,67,69,95,76,79,67,65,76,95,77,69,77,95,84,89,80,69>>
    [] n = "CL_DEVICE_MAX_CLOCK_FREQUENCY" -> <<67,76,95,68,69,86,73,67,69,95,77,65,88,95,67,76,79,67,75,95,70,82,69,81,85,69,78,67,89>>
    [] n = "CL_DEVICE_MAX_COMPUTE_UNITS" -> <<67,76,95,68,69,86,73,67,69,95,77,65,88,95,67,79,77,80,85,84,69,95,85,78,73,84,83>>
    [] n = "CL_DEVICE_MAX_CONSTANT_ARGS" -> <<67,76,95,68,69,86,73,67,69,95,77,65,88,95,67,79,78,83,84,65,78,84,95,65,82,71,83>>
    [] n = "CL_DEVICE_MAX_CONSTANT_BUFFER_SIZE" -> <<67,76,95,68,69,86,73,67,69,95,77,65,88,95,67,79,78,83,84,65,78,84,95,66,85,70,70,69,82,95,83,73,90,69>>
    [] n = "CL_DEVICE_MAX_MEM_ALLOC_SIZE" -> <<67,76,95,68,69,86,73,67,69,95,77,65,88,95,77,69,77,95,65,76,76,79,67,95,83,73,90,69>>
    [] n = "CL_DEVICE_MAX_PARAMETER_SIZE" -> <<67,76,95,68,69,86,73,67,69,95,77,65,88,95,80,65,82,65,77,69,84,69,82,95,83,73,90,69>>
    [] n = "CL_DEVICE_MAX_READ_IMAGE_ARGS" -> <<67,76,95,68,69,86,73,67,69,95,77,65,88,95,82,69,65,68,95,73,77,65,71,69,95,65,82,71,83>>
    [] n = "CL_DEVICE_MAX_SAMPLERS" -> <<67,76,95,68,69,86,73,67,69,95,77,65,88,95,83,65,77,80,76,69,82,83>>
    [] n = "CL_DEVICE_MAX_WORK_GROUP_SIZE" -> <<67,76,95,68,69,86,73,67,69,95,77,65,88,95,87,79,82,75,95,71,82,79,85,80,95,83,73,90,69>>
    [] n = "CL_DEVICE_MAX_WORK_ITEM_DIMENSIONS" -> <<67,76,95,68,69,86,73,67,69,95,77,65,88,95,87,79,82,75,95,73,84,69,77,95,68,73,77,69,78,83,73,79,78,83>>
    [] n = "CL_DEVICE_MAX_WORK_ITEM_SIZES" -> <<67,76,95,68,69,86,73,67,69,95,77,65,88,95,87,79,82,75,95,73,84,69,77,95,83,73,90,69,83>>
    [] n = "CL_DEVICE_MAX_WRITE_IMAGE_ARGS" -> <<67,76,95,68,69,86,73,67,69,95,77,65,88,95,87,82,73,84,69,95,73,77,65,71,69,95,65,82,71,83>>
    [] n = "CL_DEVICE_MEM_BASE_ADDR_ALIGN" -> <<67,76,95,68,69,86,73,67,69,95,77,69,77,95,66,65,83,69,95,65,68,68,82,95,65,76,73,71,78>>
    [] n = "CL_DEVICE_NAME" -> <<67,76,95,68,69,86,73,67,69,95,78,65,77,69>>
    [] n = "CL_DEVICE_OPENCL_C_VERSION" -> <<67,76,95,68,69,86,73,67,69,95,79,80,69,78,67,76,95,67,95,86,69,82,83,73,79,78>>
    [] n = "CL_DEVICE_PREFERRED_VECTOR_WIDTH_CHAR" -> <<67,76,95,68,69,86,73,67,69,95,80,82,69,70,69,82,82,69,68,95,86,69,67,84,79,82,95,87,73,68,84,72,95,67,72,65,82>>
    [] n = "CL_DEVICE_PREFERRED_VECTOR_WIDTH_SHORT" -> <<67,76,95,68,69,86,73,67,69,95,80,82,69,70,69,82,82,69,68,95,86,69,67,84,79,82,95,87,73,68,84,72,95,83,72,79,82,84>>
    [] n = "CL_DEVICE_PREFERRED_VECTOR_WIDTH_INT" -> <<67,76,95,68,69,86,73,67,69,95,80,82,69,70,69,82,82,69,68,95,86,69,67,84,79,82,95,87,73,68,84,72,95,73,78,84>>
    [] n = "CL_DEVICE_PREFERRED_VECTOR_WIDTH_LONG" -> <<67,76,95,68,69,86,73,67,69,95,80,82,69,70,69,82,82,69,68,95,86,69,67,84,79,82,95,87,73,68,84,72,95,76,79,78,71>>
    [] n = "CL_DEVICE_PREFERRED_VECTOR_WIDTH_FLOAT" -> <<67,76,95,68,69,86,73,67,69,95,80,82,69,70,69,82,82,69,68,95,86,69,67,84,79,82,95,87,73,68,84,72,95,70,76,79,65,84>>
    [] n = "CL_DEVICE_PREFERRED_VECTOR_WIDTH_DOUBLE" -> <<67,76,95,68,69,86,73,67,69,95,80,82,69,70,69,82,82,69,68,95,86,69,67,84,79,82,95,87,73,68,84,72,95,68,79,85,66,76,69>>
    [] n = "CL_DEVICE_PREFERRED_VECTOR_WIDTH_HALF" -> <<67,76,95,68,69,86,73,67,69,95,80,82,69,70,69,82,82,69,68,95,86,69,67,84,79,82,95,87,73,68,84,72,95,72,65,76,70>>
    [] n = "CL_DEVICE_PROFILE" -> <<67,76,95,68,69,86,73,67,69,95,80,82,79,70,73,76,69>>
    [] n = "CL_DEVICE_PROFILING_TIMER_RESOLUTION" -> <<67,76,95,68,69,86,73,67,69,95,80,82,79,70,73,76,73,78,71,95,84,73,77,69,82,95,82,69,83,79,76,85,84,73,79,78>>
    [] n = "CL_DEVICE_SINGLE_FP_CONFIG" -> <<67,76,95,68,69,86,73,67,69,95,83,73,78,71,76,69,95,70,80,95,67,79,78,70,73,71>>
    [] n = "CL_DEVICE_TYPE" -> <<67,76,95,68,69,86,73,67,69,95,84,89,80,69>>
    [] n = "CL_DEVICE_VENDOR" -> <<67,76,95,68,69,86,73,67,69,95,86,69,78,68,79,82>>
    [] n = "CL_DEVICE_VENDOR_ID" -> <<67,76,95,68,69,86,73,67,69,95,86,69,78,68,79,82,95,73,68>>
    [] n = "CL_DEVICE_VERSION" -> <<67,76,95,68,69,86,73,67,69,95,86,69,82,83,73,79,78>>
    [] n = "CL_DRIVER_VERSION" -> <<67,76,95,68,82,73,86,69,82,95,86,69,82,83,73,79,78>>
    [] n = "CL_DEVICE_HOST_UNIFIED_MEMORY" -> <<67,76,95,68,69,86,73,67,69,95,72,79,83,84,95,85,78,73,70,73,69,68,95,77,69,77,79,82,89>>
    [] n = "CL_DEVICE_MIN_DATA_TYPE_ALIGN_SIZE" -> <<67,76,95,68,69,86,73,67,69,95,77,73,78,95,68,65,84,65,95,84,89,80,69,95,65,76,73,71,78,95,83,73,90,69>>
    [] n = "CL_DEVICE_NATIVE_VECTOR_WIDTH_CHAR" -> <<67,76,95,68,69,86,73,67,69,95,78,65,84,73,86,69,95,86,69,67,84,79,82,95,87,73,68,84,72,95,67,72,65,82>>
    [] n = "CL_DEVICE_NATIVE_VECTOR_WIDTH_SHORT" -> <<67,76,95,68,69,86,73,67,69,95,78,65,84,73,86,69,95,86,69,67,84,79,82,95,87,73,68,84,72,95,83,72,79,82,84>>
    [] n = "CL_DEVICE_NATIVE_VECTOR_WIDTH_INT" -> <<67,76,95,68,69,86,73,67,69,95,78,65,84,73,86,69,95,86,69,67,84,79,82,95,87,73,68,84,72,95,73,78,84>>
    [] n = "CL_DEVICE_NATIVE_VECTOR_WIDTH_LONG" -> <<67,76,95,68,69,86,73,67,69,95,78,65,84,73,86,69,95,86,69,67,84,79,82,95,87,73,68,84,72,95,76,79,78,71>>
    [] n = "CL_DEVICE_NATIVE_VECTOR_WIDTH_FLOAT" -> <<67,76,95,68,69,86,73,67,69,95,78,65,84,73,86,69,95,86,69,67,84,79,82,95,87,73,68,84,72,95,70,76,79,65,84>>
    [] n = "CL_DEVICE_NATIVE_VECTOR_WIDTH_DOUBLE" -> <<67,76,95,68,69,86,73,67,69,95,78,65,84,73,86,69,95,86,69,67,84,79,82,95,87,73,68,84,72,95,68,79,85,66,76,69>>
    [] n = "CL_DEVICE_NATIVE_VECTOR_WIDTH_HALF" -> <<67,76,95,68,69,86,73,67,69,95,78,65,84,73,86,69,95,86,69,67,84,79,82,95,87,73,68,84,72,95,72,65,76,70>>
    [] n = "CL_DEVICE_BUILT_IN_KERNELS" -> <<67,76,95,68,69,86,73,67,69,95,66,85,73,76,84,95,73,78,95,75,69,82,78,69,76,83>>
    [] n = "CL_DEVICE_IMAGE_BASE_ADDRESS_ALIGNMENT" -> <<67,76,95,68,69,86,73,67,69,95,73,77,65,71,69,95,66,65,83,69,95,65,68,68,82,69,83,83,95,65,76,73,71,78,77,69,78,84>>
    [] n = "CL_DEVICE_IMAGE_MAX_ARRAY_SIZE" -> <<67,76,95,68,69,86,73,67,69,95,73,77,65,71,69,95,77,65,88,95,65,82,82,65,89,95,83,73,90,69>>
    [] n = "CL_DEVICE_IMAGE_MAX_BUFFER_SIZE" -> <<67,76,95,68,69,86,73,67,69,95,73,77,65,71,69,95,77,65,88,95,66,85,70,70,69,82,95,83,73,90,69>>
    [] n = "CL_DEVICE_IMAGE_PITCH_ALIGNMENT" -> <<67,76,95,68,69,86,73,67,69,95,73,77,65,71,69,95,80,73,84,67,72,95,65,76,73,71,78,77,69,78,84>>
    [] n = "CL_DEVICE_LINKER_AVAILABLE" -> <<67,76,95,68,69,86,73,67,69,95,76,73,78,75,69,82,95,65,86,65,73,76,65,66,76,69>>
    [] n = "CL_DEVICE_PARTITION_AFFINITY_DOMAIN" -> <<67,76,95,68,69,86,73,67,69,95,80,65,82,84,73,84,73,79,78,95,65,70,70,73,78,73,84,89,95,68,79,77,65,73,78>>
    [] n = "CL_DEVICE_PARTITION_MAX_SUB_DEVICES" -> <<67,76,95,68,69,86,73,67,69,95,80,65,82,84,73,84,73,79,78,95,77,65,88,95,83,85,66,95,68,69,86,73,67,69,83>>
    [] n = "CL_DEVICE_PARTITION_PROPERTIES" -> <<67,76,95,68,69,86,73,67,69,95,80,65,82,84,73,84,73,79,78,95,80,82,79,80,69,82,84,73,69,83>>
    [] n = "CL_DEVICE_PARTITION_TYPE" -> <<67,76,95,68,69,86,73,67,69,95,80,65,82,84,73,84,73,79,78,95,84,89,80,69>>
    [] n = "CL_DEVICE_PRINTF_BUFFER_SIZE" -> <<67,76,95,68,69,86,73,67,69,95,80,82,73,78,84,70,95,66,85,70,70,69,82,95,83,73,90,69>>
    [] n = "CL_DEVICE_QUEUE_PROPERTIES" -> <<67,76,95,68,69,86,73,67,69,95,81,85,69,85,69,95,80,82,79,80,69,82,84,73,69,83>>
    [] n = "CL_DEVICE_GLOBAL_VARIABLE_PREFERRED_TOTAL_SIZE" -> <<67,76,95,68,69,86,73,67,69,95,71,76,79,66,65,76,95,86,65,82,73,65,66,76,69,95,80,82,69,70,69,82,82,69,68,95,84,79,84,65,76,95,83,73,90,69>>
    [] n = "CL_DEVICE_MAX_GLOBAL_VARIABLE_SIZE" -> <<67,76,95,68,69,86,73,67,69,95,77,65,88,95,71,76,79,66,65,76,95,86,65,82,73,65,66,76,69,95,83,73,90,69>>
    [] n = "CL_DEVICE_MAX_ON_DEVICE_EVENTS" -> <<67,76,95,68,69,86,73,67,69,95,77,65,88,95,79,78,95,68,69,86,73,67,69,95,69,86,69,78,84,83>>
    [] n = "CL_DEVICE_MAX_ON_DEVICE_QUEUES" -> <<67,76,95,68,69,86,73,67,69,95,77,65,88,95,79,78,95,68,69,86,73,67,69,95,81,85,69,85,69,83>>
    [] n = "CL_DEVICE_MAX_PIPE_ARGS" -> <<67,76,95,68,69,86,73,67,69,95,77,65,88,95,80,73,80,69,95,65,82,71,83>>
    [] n = "CL_DEVICE_MAX_READ_WRITE_IMAGE_ARGS" -> <<67,76,95,68,69,86,73,67,69,95,77,65,88,95,82,69,65,68,95,87,82,73,84,69,95,73,77,65,71,69,95,65,82,71,83>>
    [] n = "CL_DEVICE_PIPE_MAX_ACTIVE_RESERVATIONS" -> <<67,76,95,68,69,86,73,67,69,95,80,73,80,69,95,77,65,88,95,65,67,84,73,86,69,95,82,69,83,69,82,86,65,84,73,79,78,83>>
    [] n = "CL_DEVICE_PIPE_MAX_PACKET_SIZE" -> <<67,76,95,68,69,86,73,67,69,95,80,73,80,69,95,77,65,88,95,80,65,67,75,69,84,95,83,73,90,69>>
    [] n = "CL_DEVICE_PREFERRED_GLOBAL_ATOMIC_ALIGNMENT" -> <<67,76,95,68,69,86,73,67,69,95,80,82,69,70,69,82,82,69,68,95,71,76,79,66,65,76,95,65,84,79,77,73,67,95,65,76,73,71,78,77,69,78,84>>
    [] n = "CL_DEVICE_PREFERRED_INTEROP_USER_SYNC" -> <<67,76,95,68,69,86,73,67,69,95,80,82,69,70,69,82,82,69,68,95,73,78,84,69,82,79,80,95,85,83,69,82,95,83,89,78,67>>
    [] n = "CL_DEVICE_PREFERRED_LOCAL_ATOMIC_ALIGNMENT" -> <<67,76,95,68,69,86,73,67,69,95,80,82,69,70,69,82,82,69,68,95,76,79,67,65,76,95,65,84,79,77,73,67,95,65,76,73,71,78,77,69,78,84>>
    [] n = "CL_DEVICE_PREFERRED_PLATFORM_ATOMIC_ALIGNMENT" -> <<67,76,95,68,69,86,73,67,69,95,80,82,69,70,69,82,82,69,68,95,80,76,65,84,70,79,82,77,95,65,84,79,77,73,67,95,65,76,73,71,78,77,69,78,84>>
    [] n = "CL_DEVICE_QUEUE_ON_DEVICE_MAX_SIZE" -> <<67,76,95,68,69,86,73,67,69,95,81,85,69,85,69,95,79,78,95,68,69,86,73,67,69,95,77,65,88,95,83,73,90,69>>
    [] n = "CL_DEVICE_QUEUE_ON_DEVICE_PREFERRED_SIZE" -> <<67,76,95,68,69,86,73,67,69,95,81,85,69,85,69,95,79,78,95,68,69,86,73,67,69,95,80,82,69,70,69,82,82,69,68,95,83,73,90,69>>
    [] n = "CL_DEVICE_QUEUE_ON_DEVICE_PROPERTIES" -> <<67,76,95,68,69,86,73,67,69,95,81,85,69,85,69,95,79,78,95,68,69,86,73,67,69,95,80,82,79,80,69,82,84,73,69,83>>
    [] n = "CL_DEVICE_QUEUE_ON_HOST_PROPERTIES" -> <<67,76,95,68,69,86,73,67,69,95,81,85,69,85,69,95,79,78,95,72,79,83,84,95,80,82,79,80,69,82,84,73,69,83>>
    [] n = "CL_DEVICE_SVM_CAPABILITIES" -> <<67,76,95,68,69,86,73,67,69,95,83,86,77,95,67,65,80,65,66,73,76,73,84,73,69,83>>
    [] n = "CL_PLATFORM_PROFILE" -> <<67,76,95,80,76,65,84,70,79,82,77,95,80,82,79,70,73,76,69>>
    [] n = "CL_PLATFORM_VERSION" -> <<67,76,95,80,76,65,84,70,79,82,77,95,86,69,82,83,73,79,78>>
    [] n = "CL_PLATFORM_NAME" -> <<67,76,95,80,76,65,84,70,79,82,77,95,78,65,77,69>>
    [] n = "CL_PLATFORM_VENDOR" -> <<67,76,95,80,76,65,84,70,79,82,77,95,86,69,78,68,79,82>>
    [] n = "CL_PLATFORM_EXTENSIONS" -> <<67,76,95,80,76,65,84,70,79,82,77,95,69,88,84,69,78,83,73,79,78,83>>
    [] n = "CL_FP_DENORM" -> <<67,76,95,70,80,95,68,69,78,79,82,77>>
    [] n = "CL_FP_INF_NAN" -> <<67,76,95,70,80,95,73,78,70,95,78,65,78>>
    [] n = "CL_FP_ROUND_TO_NEAREST" -> <<67,76,95,70,80,95,82,79,85,78,68,95,84,79,95,78,69,65,82,69,83,84>>
    [] n = "CL_FP_ROUND_TO_ZERO" -> <<67,76,95,70,80,95,82,79,85,78,68,95,84,79,95,90,69,82,79>>
    [] n = "CL_FP_ROUND_TO_INF" -> <<67,76,95,70,80,95,82,79,85,78,68,95,84,79,95,73,78,70>>
    [] n = "CL_FP_FMA" -> <<67,76,95,70,80,95,70,77,65>>
    [] n = "CL_FP_SOFT_FLOAT" -> <<67,76,95,70,80,95,83,79,70,84,95,70,76,79,65,84>>
    [] n = "CL_EXEC_KERNEL" -> <<67,76,95,69,88,69,67,95,75,69,82,78,69,76>>
    [] n = "CL_EXEC_NATIVE_KERNEL" -> <<67,76,95,69,88,69,67,95,78,65,84,73,86,69,95,75,69,82,78,69,76>>
    [] n = "CL_READ_ONLY_CACHE" -> <<67,76,95,82,69,65,68,95,79,78,76,89,95,67,65,67,72,69>>
    [] n = "CL_READ_WRITE_CACHE" -> <<67,76,95,82,69,65,68,95,87,82,73,84,69,95,67,65,67,72,69>>
    [] n = "CL_LOCAL" -> <<67,76,95,76,79,67,65,76>>
    [] n = "CL_GLOBAL" -> <<67,76,95,71,76,79,66,65,76>>
    [] n = "CL_DEVICE_AFFINITY_DOMAIN_NUMA" -> <<67,76,95,68,69,86,73,67,69,95,65,70,70,73,78,73,84,89,95,68,79,77,65,73,78,95,78,85,77,65>>
    [] n = "CL_DEVICE_AFFINITY_DOMAIN_L4_CACHE" -> <<67,76,95,68,69,86,73,67,69,95,65,70,70,73,78,73,84,89,95,68,79,77,65,73,78,95,76,52,95,67,65,67,72,69>>
    [] n = "CL_DEVICE_AFFINITY_DOMAIN_L3_CACHE" -> <<67,76,95,68,69,86,73,67,69,95,65,70,70,73,78,73,84,89,95,68,79,77,65,73,78,95,76,51,95,67,65,67,72,69>>
    [] n = "CL_DEVICE_AFFINITY_DOMAIN_L2_CACHE" -> <<67,76,95,68,69,86,73,67,69,95,65,70,70,73,78,73,84,89,95,68,79,77,65,73,78,95,76,50,95,67,65,67,72,69>>
    [] n = "CL_DEVICE_AFFINITY_DOMAIN_L1_CACHE" -> <<67,76,95,68,69,86,73,67,69,95,65,70,70,73,78,73,84,89,95,68,79,77,65,73,78,95,76,49,95,67,65,67,72,69>>
    [] n = "CL_DEVICE_AFFINITY_DOMAIN_NEXT_PARTITIONABLE" -> <<67,76,95,68,69,86,73,67,69,95,65,70,70,73,78,73,84,89,95,68,79,77,65,73,78,95,78,69,88,84,95,80,65,82,84,73,84,73,79,78,65,66,76,69>>
    [] n = "CL_DEVICE_PARTITION_EQUALLY" -> <<67,76,95,68,69,86,73,67,69,95,80,65,82,84,73,84,73,79,78,95,69,81,85,65,76,76,89>>
    [] n = "CL_DEVICE_PARTITION_BY_COUNTS" -> <<67,76,95,68,69,86,73,67,69,95,80,65,82,84,73,84,73,79,78,95,66,89,95,67,79,85,78,84,83>>
    [] n = "CL_DEVICE_PARTITION_BY_AFFINITY_DOMAIN" -> <<67,76,95,68,69,86,73,67,69,95,80,65,82,84,73,84,73,79,78,95,66,89,95,65,70,70,73,78,73,84,89,95,68,79,77,65,73,78>>
    [] n = "CL_QUEUE_OUT_OF_ORDER_EXEC_MODE_ENABLE" -> <<67,76,95,81,85,69,85,69,95,79,85,84,95,79,70,95,79,82,68,69,82,95,69,88,69,67,95,77,79,68,69,95,69,78,65,66,76,69>>
    [] n = "CL_QUEUE_PROFILING_ENABLE" -> <<67,76,95,81,85,69,85,69,95,80,82,79,70,73,76,73,78,71,95,69,78,65,66,76,69>>
    [] n = "CL_DEVICE_TYPE_CPU" -> <<67,76,95,68,69,86,73,67,69,95,84,89,80,69,95,67,80,85>>
    [] n = "CL_DEVICE_TYPE_GPU" -> <<67,76,95,68,69,86,73,67,69,95,84,89,80,69,95,71,80,85>>
    [] n = "CL_DEVICE_TYPE_ACCELERATOR" -> <<67,76,95,68,69,86,73,67,69,95,84,89,80,69,95,65,67,67,69,76,69,82,65,84,79,82>>
    [] n = "CL_DEVICE_TYPE_DEFAULT" -> <<67,76,95,68,69,86,73,67,69,95,84,89,80,69,95,68,69,70,65,85,76,84>>
    [] n = "CL_DEVICE_TYPE_CUSTOM" -> <<67,76,95,68,69,86,73,67,69,95,84,89,80,69,95,67,85,83,84,79,77>>
    [] n = "CL_DEVICE_SVM_COARSE_GRAIN_BUFFER" -> <<67,76,95,68,69,86,73,67,69,95,83,86,77,95,67,79,65,82,83,69,95,71,82,65,73,78,95,66,85,70,70,69,82>>
    [] n = "CL_DEVICE_SVM_FINE_GRAIN_BUFFER" -> <<67,76,95,68,69,86,73,67,69,95,83,86,77,95,70,73,78,69,95,71,82,65,73,78,95,66,85,70,70,69,82>>
    [] n = "CL_DEVICE_SVM_FINE_GRAIN_SYSTEM" -> <<67,76,95,68,69,86,73,67,69,95,83,86,77,95,70,73,78,69,95,71,82,65,73,78,95,83,89,83,84,69,77>>
    [] n = "CL_DEVICE_SVM_ATOMICS" -> <<67,76,95,68,69,86,73,67,69,95,83,86,77,95,65,84,79,77,73,67,83>>
    [] n = "R" -> <<82>>
    [] n = "A" -> <<65>>
    [] n = "RG" -> <<82,71>>
    [] n = "RA" -> <<82,65>>
    [] n = "RGB" -> <<82,71,66>>
    [] n = "RGBA" -> <<82,71,66,65>>
    [] n = "BGRA" -> <<66,71,82,65>>
    [] n = "ARGB" -> <<65,82,71,66>>
    [] n = "INTENSITY" -> <<73,78,84,69,78,83,73,84,89>>
    [] n = "LUMINANCE" -> <<76,85,77,73,78,65,78,67,69>>
    [] n = "Rx" -> <<82,120>>
    [] n = "RGx" -> <<82,71,120>>
    [] n = "RGBx" -> <<82,71,66,120>>
    [] n = "DEPTH_STENCIL" -> <<68,69,80,84,72,95,83,84,69,78,67,73,76>>
    [] n = "Unknown channel order" -> <<85,110,107,110,111,119,110,32,99,104,97,110,110,101,108,32,111,114,100,101,114>>
    [] n = "int8_snorm" -> <<105,110,116,56,95,115,110,111,114,109>>
    [] n = "int16_snorm" -> <<105,110,116,49,54,95,115,110,111,114,109>>
    [] n = "int8_unorm" -> <<105,110,116,56,95,117,110,111,114,109>>
    [] n = "int16_unorm" -> <<105,110,116,49,54,95,117,110,111,114,109>>
    [] n = "short565_unorm" -> <<115,104,111,114,116,53,54,53,95,117,110,111,114,109>>
    [] n = "short555_unorm" -> <<115,104,111,114,116,53,53,53,95,117,110,111,114,109>>
    [] n = "int101010_unorm" -> <<105,110,116,49,48,49,48,49,48,95,117,110,111,114,109>>
    [] n = "sint8" -> <<115,105,110,116,56>>
    [] n = "sint16" -> <<115,105,110,116,49,54>>
    [] n = "sint32" -> <<115,105,110,116,51,50>>
    [] n = "uint8" -> <<117,105,110,116,56>>
    [] n = "uint16" -> <<117,105,110,116,49,54>>
    [] n = "uint32" -> <<117,105,110,116,51,50>>
    [] n = "half" -> <<104,97,108,102>>
    [] n = "float" -> <<102,108,111,97,116>>
    [] n = "Unknown channel data type" -> <<85,110,107,110,111,119,110,32,99,104,97,110,110,101,108,32,100,97,116,97,32,116,121,112,101>>
\* BitfieldFetcher<T>: the value of a flag constant of CL/cl.h and its name
BitfieldFetcher(n) ==
  [value |-> CASE n = "CL_FP_DENORM" -> 1
                  [] n = "CL_FP_INF_NAN" -> 2
                  [] n = "CL_FP_ROUND_TO_NEAREST" -> 4
                  [] n = "CL_FP_ROUND_TO_ZERO" -> 8
                  [] n = "CL_FP_ROUND_TO_INF" -> 16
                  [] n = "CL_FP_FMA" -> 32
                  [] n = "CL_FP_SOFT_FLOAT" -> 64
                  [] n = "CL_EXEC_KERNEL" -> 1
                  [] n = "CL_EXEC_NATIVE_KERNEL" -> 2
                  [] n = "CL_READ_ONLY_CACHE" -> 1
                  [] n = "CL_READ_WRITE_CACHE" -> 2
                  [] n = "CL_LOCAL" -> 1
                  [] n = "CL_GLOBAL" -> 2
                  [] n = "CL_DEVICE_AFFINITY_DOMAIN_NUMA" -> 1
                  [] n = "CL_DEVICE_AFFINITY_DOMAIN_L4_CACHE" -> 2
                  [] n = "CL_DEVICE_AFFINITY_DOMAIN_L3_CACHE" -> 4
                  [] n = "CL_DEVICE_AFFINITY_DOMAIN_L2_CACHE" -> 8
                  [] n = "CL_DEVICE_AFFINITY_DOMAIN_L1_CACHE" -> 16
                  [] n = "CL_DEVICE_AFFINITY_DOMAIN_NEXT_PARTITIONABLE" -> 32
                  [] n = "CL_DEVICE_PARTITION_EQUALLY" -> 4230
                  [] n = "CL_DEVICE_PARTITION_BY_COUNTS" -> 4231
                  [] n = "CL_DEVICE_PARTITION_BY_AFFINITY_DOMAIN" -> 4232
                  [] n = "CL_QUEUE_OUT_OF_ORDER_EXEC_MODE_ENABLE" -> 1
                  [] n = "CL_QUEUE_PROFILING_ENABLE" -> 2
                  [] n = "CL_DEVICE_TYPE_DEFAULT" -> 1
                  [] n = "CL_DEVICE_TYPE_CPU" -> 2
                  [] n = "CL_DEVICE_TYPE_GPU" -> 4
                  [] n = "CL_DEVICE_TYPE_ACCELERATOR" -> 8
                  [] n = "CL_DEVICE_TYPE_CUSTOM" -> 16
                  [] n = "CL_DEVICE_SVM_COARSE_GRAIN_BUFFER" -> 1
                  [] n = "CL_DEVICE_SVM_FINE_GRAIN_BUFFER" -> 2
                  [] n = "CL_DEVICE_SVM_FINE_GRAIN_SYSTEM" -> 4
                  [] n = "CL_DEVICE_SVM_ATOMICS" -> 8,
   n |-> n]

\* the static `fields` table of each bitfield decoder
BitfieldFields(cf) ==
  CASE cf = "CreateDeviceFPConfig" ->
         <<BitfieldFetcher("CL_FP_DENORM"),
           BitfieldFetcher("CL_FP_INF_NAN"),
           BitfieldFetcher("CL_FP_ROUND_TO_NEAREST"),
           BitfieldFetcher("CL_FP_ROUND_TO_ZERO"),
           BitfieldFetcher("CL_FP_ROUND_TO_INF"),
           BitfieldFetcher("CL_FP_FMA"),
           BitfieldFetcher("CL_FP_SOFT_FLOAT")>>
    [] cf = "CreateDeviceExecCapabilities" ->
         <<BitfieldFetcher("CL_EXEC_KERNEL"),
           BitfieldFetcher("CL_EXEC_NATIVE_KERNEL")>>
    [] cf = "CreateDeviceMemCacheType" ->
         <<BitfieldFetcher("CL_READ_ONLY_CACHE"),
           BitfieldFetcher("CL_READ_WRITE_CACHE")>>
    [] cf = "CreateDeviceLocalMemType" ->
         <<BitfieldFetcher("CL_LOCAL"),
           BitfieldFetcher("CL_GLOBAL")>>
    [] cf = "CreateDeviceAffinityDomain" ->
         <<BitfieldFetcher("CL_DEVICE_AFFINITY_DOMAIN_NUMA"),
           BitfieldFetcher("CL_DEVICE_AFFINITY_DOMAIN_L4_CACHE"),
           BitfieldFetcher("CL_DEVICE_AFFINITY_DOMAIN_L3_CACHE"),
           BitfieldFetcher("CL_DEVICE_AFFINITY_DOMAIN_L2_CACHE"),
           BitfieldFetcher("CL_DEVICE_AFFINITY_DOMAIN_L1_CACHE"),
           BitfieldFetcher("CL_DEVICE_AFFINITY_DOMAIN_NEXT_PARTITIONABLE")>>
    [] cf = "CreateDevicePartitionProperty" ->
         <<BitfieldFetcher("CL_DEVICE_PARTITION_EQUALLY"),
           BitfieldFetcher("CL_DEVICE_PARTITION_BY_COUNTS"),
           BitfieldFetcher("CL_DEVICE_PARTITION_BY_AFFINITY_DOMAIN")>>
    [] cf = "CreateCommandQueueProperties" ->
         <<BitfieldFetcher("CL_QUEUE_OUT_OF_ORDER_EXEC_MODE_ENABLE"),
           BitfieldFetcher("CL_QUEUE_PROFILING_ENABLE")>>
    [] cf = "CreateDeviceType" ->
         <<BitfieldFetcher("CL_DEVICE_TYPE_CPU"),
           BitfieldFetcher("CL_DEVICE_TYPE_GPU"),
           BitfieldFetcher("CL_DEVICE_TYPE_ACCELERATOR"),
           BitfieldFetcher("CL_DEVICE_TYPE_DEFAULT"),
           BitfieldFetcher("CL_DEVICE_TYPE_CUSTOM")>>
    [] cf = "CreateDeviceSVMCapabilities" ->
         <<BitfieldFetcher("CL_DEVICE_SVM_COARSE_GRAIN_BUFFER"),
           BitfieldFetcher("CL_DEVICE_SVM_FINE_GRAIN_BUFFER"),
           BitfieldFetcher("CL_DEVICE_SVM_FINE_GRAIN_SYSTEM"),
           BitfieldFetcher("CL_DEVICE_SVM_ATOMICS")>>

\* sizeof of the type each bitfield decoder reads from the buffer
BitfieldWidth(cf) ==
  CASE cf = "CreateDeviceFPConfig" -> 8
    [] cf = "CreateDeviceExecCapabilities" -> 8
    [] cf = "CreateDeviceMemCacheType" -> 4
    [] cf = "CreateDeviceLocalMemType" -> 4
    [] cf = "CreateDeviceAffinityDomain" -> 8
    [] cf = "CreateDevicePartitionProperty" -> 8
    [] cf = "CreateCommandQueueProperties" -> 8
    [] cf = "CreateDeviceType" -> 8
    [] cf = "CreateDeviceSVMCapabilities" -> 8

\* const char* ChannelOrderToString (cl_channel_order order)
ChannelOrderToString(order) ==
  CASE order = "CL_R" -> "R"
    [] order = "CL_A" -> "A"
    [] order = "CL_RG" -> "RG"
    [] order = "CL_RA" -> "RA"
    [] order = "CL_RGB" -> "RGB"
    [] order = "CL_RGBA" -> "RGBA"
    [] order = "CL_BGRA" -> "BGRA"
    [] order = "CL_ARGB" -> "ARGB"
    [] order = "CL_INTENSITY" -> "INTENSITY"
    [] order = "CL_LUMINANCE" -> "LUMINANCE"
    [] order = "CL_Rx" -> "Rx"
    [] order = "CL_RGx" -> "RGx"
    [] order = "CL_RGBx" -> "RGBx"
    [] order = "CL_DEPTH_STENCIL" -> "DEPTH_STENCIL"
    [] OTHER -> "Unknown channel order"

\* const char* ChannelDataTypeToString (cl_channel_type type)
ChannelDataTypeToString(type) ==
  CASE type = "CL_SNORM_INT8" -> "int8_snorm"
    [] type = "CL_SNORM_INT16" -> "int16_snorm"
    [] type = "CL_UNORM_INT8" -> "int8_unorm"
    [] type = "CL_UNORM_INT16" -> "int16_unorm"
    [] type = "CL_UNORM_SHORT_565" -> "short565_unorm"
    [] type = "CL_UNORM_SHORT_555" -> "short555_unorm"
    [] type = "CL_UNORM_INT_101010" -> "int101010_unorm"
    [] type = "CL_SIGNED_INT8" -> "sint8"
    [] type = "CL_SIGNED_INT16" -> "sint16"
    [] type = "CL_SIGNED_INT32" -> "sint32"
    [] type = "CL_UNSIGNED_INT8" -> "uint8"
    [] type = "CL_UNSIGNED_INT16" -> "uint16"
    [] type = "CL_UNSIGNED_INT32" -> "uint32"
    [] type = "CL_HALF_FLOAT" -> "half"
    [] type = "CL_FLOAT" -> "float"
    [] OTHER -> "Unknown channel data type"

\* the static const tables of GatherDeviceInfo that carry no entry
infos_CL_2_0_Ext == <<>>

\* the comparator handed to std::sort: ::strcmp (a.n, b.n) < 0
NameLess(a, b) == Strcmp(Chars(a.n), Chars(b.n)) < 0

\* propertiesToFetch left in the order of the tables
SortByName_Unsorted(container) == container

RECURSIVE SortByName(_)
\* std::sort (begin, end, comparator).  The algorithm is the library's; any
\* sort gives the same sequence here, because the entries that compare equal
\* are equal records in every combination of the tables.  The entries less
\* than the middle one, sorted, then the middle one, then the others, sorted
SortByName(container) ==
  IF Len(container) <= 1 THEN container
  ELSE LET mid == (Len(container) + 1) \div 2
           pivot == container[mid]
           others == SubSeq(container, 1, mid - 1) \o
                     SubSeq(container, mid + 1, Len(container))
           less == SelectSeq(others, LAMBDA e : NameLess(e, pivot))
           notLess == SelectSeq(others, LAMBDA e : ~NameLess(e, pivot))
       IN  (SortByName(less) \o <<pivot>>) \o SortByName(notLess)

\* a selection that appends every table of a version up to the device's
SelectedInfos_Cumulative(version) ==
  ((((infos_CL_shared
      \o (IF VersionGe(version, Version(1, 0)) THEN infos_CL_1_0 ELSE <<>>))
      \o (IF VersionGe(version, Version(1, 1)) THEN infos_CL_1_1 ELSE <<>>))
      \o (IF VersionGe(version, Version(1, 2)) THEN infos_CL_1_2 ELSE <<>>))
      \o (IF VersionGe(version, Version(2, 0)) THEN infos_CL_2_0 ELSE <<>>))

\* GatherDeviceInfo: the tables appended to infos_CL_shared for a version
SelectedInfos(version) ==
  IF VersionEq(version, Version(1, 0)) THEN infos_CL_shared \o infos_CL_1_0
  ELSE IF VersionEq(version, Version(1, 1)) THEN infos_CL_shared \o infos_CL_1_1
  ELSE IF VersionEq(version, Version(1, 2)) THEN infos_CL_shared \o infos_CL_1_2
  ELSE IF VersionGe(version, Version(2, 0))
         THEN (infos_CL_shared \o infos_CL_1_2) \o infos_CL_2_0
  ELSE infos_CL_shared

\* the versions a device of the explored worlds can report
VersionUniverse == {Version(a, b) : a \in 0..(MaxMajor + 1), b \in 0..(MaxMinor + 1)}

\* propertiesToFetch after the sort, tabulated once per version
SortedInfos == [v \in VersionUniverse |-> SortByName(SelectedInfos(v))]

PropertiesToFetch(version) == SortedInfos[version]

-----------------------------------------------------------------------------
(* The state a gather works on: the pool, the memory it hands out, the     *)
(* driver calls issued so far, the contexts held, and whether an exception *)
(* is propagating.  A statement yields an outcome: the state it leaves and *)
(* the value it returns.                                                   *)
(*                                                                         *)
(* With([x \in {s} |-> e]) is e with x standing for what the statement s   *)
(* yields; s is evaluated once, before e.  A function body is a chain of   *)
(* these, one link per statement, in the order of the source.              *)

With(f) == f[CHOOSE x \in DOMAIN f : TRUE]

\* the state at the start of a call: no driver call yet, no exception
Machine(pool, heap, open, memory) ==
  [pool |-> pool, heap |-> heap, log |-> <<>>, exc |-> FALSE, open |-> open,
   memory |-> memory]

Outcome(m, result) == [m |-> m, result |-> result]

\* what a function yields when an exception leaves it
Thrown(m) == [m |-> m, result |-> NULL]

\* cliNode in zeroed pool memory
ZeroNode == [name |-> "", kind |-> "", firstChild |-> NULL, next |-> NULL,
             firstProperty |-> <<>>]

\* throw std::bad_alloc ()
Raise(m) == [m EXCEPT !.exc = TRUE]

\* blocks_.emplace_back (std::vector<unsigned char> (BlockSize)) throws
\* std::bad_alloc when the system has no memory for another block
NewBlockThrows(m, size) ==
  /\ m.pool.offset + size > BlockSize
  /\ m.memory.limited
  /\ m.pool.blocks >= m.memory.blocks

\* pool.Allocate (size) inside a gather
Allocate(m, size) ==
  IF AllocateThrows(size) THEN Thrown(Raise(m))
  ELSE IF NewBlockThrows(m, size) THEN Thrown(Raise(m))
  ELSE With([a \in {PoolAllocate(m.pool, size)} |->
         Outcome([m EXCEPT !.pool = a.pool], a.result)])

\* pool.Allocate<cliNode> ()
AllocateNode(m) ==
  With([a \in {Allocate(m, SizeofNode)} |->
    IF a.m.exc THEN Thrown(a.m)
    ELSE Outcome([a.m EXCEPT !.heap = (a.result :> ZeroNode) @@ @], a.result)])

\* CreateValue (Pool<>&, const char*)
CreateValueString(m, value) ==
  With([v \in {Allocate(m, SizeofValue)} |->
    IF v.m.exc THEN Thrown(v.m)
    ELSE With([s \in {Allocate(v.m, StrLen(value) + 1)} |->
      IF s.m.exc THEN Thrown(s.m)
      ELSE Outcome(s.m, <<[s |-> value]>>)])])

\* CreateValue (Pool<>&, const std::int64_t)
CreateValueInt(m, value) ==
  With([v \in {Allocate(m, SizeofValue)} |->
    IF v.m.exc THEN Thrown(v.m) ELSE Outcome(v.m, <<[i |-> value]>>)])

\* CreateValue (Pool<>&, const bool)
CreateValueBool(m, value) ==
  With([v \in {Allocate(m, SizeofValue)} |->
    IF v.m.exc THEN Thrown(v.m) ELSE Outcome(v.m, <<[b |-> value]>>)])

-----------------------------------------------------------------------------
(* Value decoders (CreateFunc)                                             *)

SizeofUInt == 4
SizeofULong == 8
SizeofSizeT == 8

RECURSIVE LittleEndian(_, _, _)
\* the unsigned integer stored in `width` bytes from position first
LittleEndian(buffer, first, width) ==
  IF width = 0 THEN 0
  ELSE CharAt(buffer, first) + 256 * LittleEndian(buffer, first + 1, width - 1)

\* sizeof (std::int64_t)
SizeofInt64 == 8

\* a conversion that repeats the top bit of the source in the added bytes
Int64OfUnsigned_SignExtended(buffer, first, width) ==
  [k \in 1..SizeofInt64 |->
     IF k <= width THEN CharAt(buffer, first + k - 1)
     ELSE IF CharAt(buffer, first + width - 1) >= 128 THEN 255 ELSE 0]

\* static_cast<std::int64_t> (x) for an unsigned x stored in `width` bytes
\* from position first: the bytes of the 64-bit result, lowest first.  The
\* value is kept, so the added bytes are 0; a 64-bit source keeps its bytes
Int64OfUnsigned(buffer, first, width) ==
  [k \in 1..SizeofInt64 |-> IF k <= width THEN CharAt(buffer, first + k - 1) ELSE 0]

RECURSIVE BitAnd(_, _)
BitAnd(a, b) ==
  IF a = 0 \/ b = 0 THEN 0
  ELSE ((a % 2) * (b % 2)) + 2 * BitAnd(a \div 2, b \div 2)

CreateChar(m, buffer, size) == CreateValueString(m, CStringAt(buffer, 1))

RECURSIVE ScanToken(_, _)
\* while (*p != '\0' && *p != ' ') ++p;
ScanToken(buffer, p) ==
  IF CharAt(buffer, p) = NUL \/ CharAt(buffer, p) = SPACE THEN p
  ELSE ScanToken(buffer, p + 1)

RECURSIVE SkipSpaces(_, _)
\* while (*p == ' ') ++p;
SkipSpaces(buffer, p) ==
  IF CharAt(buffer, p) = SPACE THEN SkipSpaces(buffer, p + 1) ELSE p

\* if (*p == ' ') { *p = '\0'; ++p; while (*p == ' ') ++p; }
AfterToken(buffer, p) ==
  IF CharAt(buffer, p) = SPACE THEN SkipSpaces(buffer, p + 1) ELSE p

RECURSIVE CharListLoop(_, _, _, _)
\* while (*p != '\0') { s = p; ...; CreateValue (pool, s); link }
CharListLoop(m, buffer, s, result) ==
  IF CharAt(buffer, s) = NUL THEN Outcome(m, result)
  ELSE With([p \in {ScanToken(buffer, s)} |->
         With([value \in {CreateValueString(m, SubSeq(buffer, s, p - 1))} |->
           IF value.m.exc THEN Thrown(value.m)
           ELSE CharListLoop(value.m, buffer, AfterToken(buffer, p),
                             result \o value.result)])])

CreateCharList(m, buffer, size) == CharListLoop(m, buffer, 1, <<>>)

CreateUInt(m, buffer, size) == CreateValueInt(m, Int64OfUnsigned(buffer, 1, SizeofUInt))

CreateULong(m, buffer, size) == CreateValueInt(m, Int64OfUnsigned(buffer, 1, SizeofULong))

CreateSizeT(m, buffer, size) == CreateValueInt(m, Int64OfUnsigned(buffer, 1, SizeofSizeT))

RECURSIVE SizeTListLoop(_, _, _, _, _)
\* for (i = 0; i < size / sizeof (size_t); ++i)
SizeTListLoop(m, buffer, size, i, result) ==
  IF ~(i < size \div SizeofSizeT) THEN Outcome(m, result)
  ELSE With([v \in {CreateValueInt(m, Int64OfUnsigned(buffer, i * SizeofSizeT + 1,
                                                     SizeofSizeT))} |->
         IF v.m.exc THEN Thrown(v.m)
         ELSE SizeTListLoop(v.m, buffer, size, i + 1, result \o v.result)])

CreateSizeTList(m, buffer, size) == SizeTListLoop(m, buffer, size, 0, <<>>)

CreateBool(m, buffer, size) == CreateValueBool(m, LittleEndian(buffer, 1, SizeofUInt) # 0)

RECURSIVE BitfieldLoop(_, _, _, _, _)
\* for (const auto field : fields)
BitfieldLoop(m, config, fields, k, result) ==
  IF k > Len(fields) THEN Outcome(m, result)
  ELSE IF BitAnd(config, fields[k].value) # fields[k].value
         THEN BitfieldLoop(m, config, fields, k + 1, result)
  ELSE With([value \in {Allocate(m, SizeofValue)} |->
         IF value.m.exc THEN Thrown(value.m)
         ELSE BitfieldLoop(value.m, config, fields, k + 1,
                           Append(result, [s |-> Chars(fields[k].n)]))])

\* a decoder that looks at the first entry of its table only
CreateBitfield_FirstOnly(config, fields, m) ==
  BitfieldLoop(m, config, SubSeq(fields, 1, 1), 1, <<>>)

\* CreateBitfield (config, fields, pool)
CreateBitfield(config, fields, m) == BitfieldLoop(m, config, fields, 1, <<>>)

IsBitfieldDecoder(cf) ==
  cf \in {"CreateDeviceFPConfig", "CreateDeviceExecCapabilities",
          "CreateDeviceMemCacheType", "CreateDeviceLocalMemType",
          "CreateDeviceAffinityDomain", "CreateDevicePartitionProperty",
          "CreateCommandQueueProperties", "CreateDeviceType",
          "CreateDeviceSVMCapabilities"}

\* the call through a CreateFunc pointer
Create(cf, m, buffer, size) ==
  CASE cf = "CreateChar" -> CreateChar(m, buffer, size)
    [] cf = "CreateCharList" -> CreateCharList(m, buffer, size)
    [] cf = "CreateUInt" -> CreateUInt(m, buffer, size)
    [] cf = "CreateULong" -> CreateULong(m, buffer, size)
    [] cf = "CreateSizeT" -> CreateSizeT(m, buffer, size)
    [] cf = "CreateSizeTList" -> CreateSizeTList(m, buffer, size)
    [] cf = "CreateBool" -> CreateBool(m, buffer, size)
    [] IsBitfieldDecoder(cf) ->
         CreateBitfield(LittleEndian(buffer, 1, BitfieldWidth(cf)), BitfieldFields(cf), m)
-----------------------------------------------------------------------------
(* The driver.  A world fixes what the OpenCL calls answer: the platforms, *)
(* the devices of each platform with the version each reports, the image   *)
(* formats, and at most one call site that misbehaves.                     *)

CL_SUCCESS == 0
CL_INVALID_VALUE == -30

\* handles: platform p is <<p>>, device d of platform p is <<p, d>>;
\* the context created for a device carries the device's handle
NoFault == [site |-> "none", obj |-> <<>>, info |-> "", kind |-> ""]

Fault(site, obj, info, kind) == [site |-> site, obj |-> obj, info |-> info, kind |-> kind]

\* "OpenCL <major>.<minor> x" with its NUL
VersionString(v) ==
  <<79, 112, 101, 110, 67, 76, SPACE, 48 + v.major, DOT, 48 + v.minor, SPACE, 120, NUL>>

\* what the driver stores for an attribute, by the C type the decoder reads
SampleData(cf) ==
  CASE cf = "CreateChar" -> <<97, 98, NUL>>
    [] cf = "CreateCharList" -> <<65, SPACE, 66, SPACE, SPACE, 67, NUL>>
    [] cf = "CreateUInt" -> <<7, 0, 0, 0>>
    [] cf = "CreateULong" -> <<0, 1, 0, 0, 0, 0, 0, 0>>
    [] cf = "CreateSizeT" -> <<9, 0, 0, 0, 0, 0, 0, 0>>
    [] cf = "CreateSizeTList" ->
         <<1, 0, 0, 0, 0, 0, 0, 0, 2, 0, 0, 0, 0, 0, 0, 0, 3, 0, 0, 0, 0, 0, 0, 0>>
    [] cf = "CreateBool" -> <<1, 0, 0, 0>>
    [] cf \in {"CreateDeviceMemCacheType", "CreateDeviceLocalMemType"} -> <<2, 0, 0, 0>>
    [] cf = "CreateDevicePartitionProperty" -> <<0, 0, 0, 0, 0, 0, 0, 0>>
    [] OTHER -> <<3, 0, 0, 0, 0, 0, 0, 0>>

AllDeviceInfos ==
  (((infos_CL_shared \o infos_CL_1_0) \o infos_CL_1_1) \o infos_CL_1_2) \o infos_CL_2_0

\* the decoder the tables pair with an attribute id
DecoderOf(table, info) ==
  table[CHOOSE k \in 1..Len(table) : table[k].info = info].cf

\* a string longer than a pool block
OversizeString == <<Run(BlockSize), NUL>>

\* a string that fills a pool block
LargeString == <<Run(BlockSize - 2), NUL>>

\* the name the driver gives an object: "n", the digits of its handle, a NUL
HandleName(obj) == (<<110>> \o [k \in 1..Len(obj) |-> 48 + obj[k]]) \o <<NUL>>

\* the bytes the driver holds for an attribute of an object
AttributeData(w, fn, obj, info) ==
  IF w.fault = Fault(fn, obj, info, "oversize") THEN OversizeString
  ELSE IF w.fault = Fault(fn, obj, info, "large") THEN LargeString
  ELSE IF info \in {"CL_PLATFORM_NAME", "CL_DEVICE_NAME"} THEN HandleName(obj)
  ELSE IF fn = "clGetPlatformInfo" THEN SampleData(DecoderOf(PlatformInfos, info))
  ELSE IF info = "CL_DEVICE_VERSION" THEN VersionString(w.platforms[obj[1]].devices[obj[2]])
  ELSE SampleData(DecoderOf(AllDeviceInfos, info))

\* clGetPlatformInfo / clGetDeviceInfo (object, info, size, buffer, &size):
\* phase "size" is the call with a null buffer, "fill" the one with a buffer
GetInfo(w, fn, obj, info, phase) ==
  IF w.fault = Fault(fn, obj, info, phase)
    THEN [status |-> CL_INVALID_VALUE, size |-> 0, data |-> <<>>]
  ELSE IF w.fault = Fault(fn, obj, info, "empty")
    THEN [status |-> CL_SUCCESS, size |-> 0, data |-> <<>>]
  ELSE With([data \in {AttributeData(w, fn, obj, info)} |->
         [status |-> CL_SUCCESS, size |-> SumWidth(data, 1, Len(data)), data |-> data]])

\* clGetPlatformIDs
GetPlatformIDs(w, phase) ==
  IF w.fault = Fault("clGetPlatformIDs", <<>>, "", phase)
    THEN [status |-> CL_INVALID_VALUE, num |-> 0, ids |-> <<>>]
    ELSE [status |-> CL_SUCCESS, num |-> Len(w.platforms),
          ids |-> [p \in 1..Len(w.platforms) |-> <<p>>]]

\* clGetDeviceIDs (platform, CL_DEVICE_TYPE_ALL, ...)
GetDeviceIDs(w, platformId, phase) ==
  LET devices == w.platforms[platformId[1]].devices
  IN  IF w.fault = Fault("clGetDeviceIDs", platformId, "", phase)
        THEN [status |-> CL_INVALID_VALUE, num |-> 0, ids |-> <<>>]
        ELSE [status |-> CL_SUCCESS, num |-> Len(devices),
              ids |-> [d \in 1..Len(devices) |-> <<platformId[1], d>>]]

\* clCreateContext (nullptr, 1, &id, nullptr, nullptr, &result)
CreateContext(w, id) ==
  IF w.fault = Fault("clCreateContext", id, "", "fail")
    THEN [result |-> CL_INVALID_VALUE, ctx |-> <<>>]
    ELSE [result |-> CL_SUCCESS, ctx |-> id]

\* cl_image_format values a driver can list; CL_DEPTH and CL_UNORM_INT24
\* are codes the two ToString switches do not name
DriverFormats ==
  <<[image_channel_order |-> "CL_RGBA", image_channel_data_type |-> "CL_UNORM_INT8"],
    [image_channel_order |-> "CL_DEPTH", image_channel_data_type |-> "CL_UNORM_INT24"],
    [image_channel_order |-> "CL_R", image_channel_data_type |-> "CL_FLOAT"]>>

ImageTypeIds ==
  <<"CL_MEM_OBJECT_IMAGE1D", "CL_MEM_OBJECT_IMAGE2D", "CL_MEM_OBJECT_IMAGE3D",
    "CL_MEM_OBJECT_IMAGE1D_BUFFER", "CL_MEM_OBJECT_IMAGE1D_ARRAY",
    "CL_MEM_OBJECT_IMAGE2D_ARRAY">>

\* the formats of an image type in the world's format profile: the profile
\* shifts how many formats (0..MaxFormats) each type has; the profile past
\* MaxFormats is the driver without any image format
SupportedFormats(w, type) ==
  LET t == CHOOSE k \in 1..Len(ImageTypeIds) : ImageTypeIds[k] = type
      n == IF w.formats > MaxFormats THEN 0 ELSE (t + w.formats) % (MaxFormats + 1)
  IN  SubSeq(DriverFormats, 1, Min(n, Len(DriverFormats)))

\* clGetSupportedImageFormats (ctx, CL_MEM_READ_WRITE, type, ...)
GetSupportedImageFormats(w, ctx, type, phase) ==
  IF w.fault = Fault("clGetSupportedImageFormats", ctx, type, phase)
    THEN [status |-> CL_INVALID_VALUE, num |-> 0, formats |-> <<>>]
    ELSE [status |-> CL_SUCCESS, num |-> Len(SupportedFormats(w, type)),
          formats |-> SupportedFormats(w, type)]

\* the record of one driver call
Called(m, fn, obj, info, phase) ==
  [m EXCEPT !.log = Append(@, <<fn, obj, info, phase>>)]

\* the record of a getInfoFunction call with the buffer size it passes
CalledSized(m, fn, obj, info, phase, size) ==
  [m EXCEPT !.log = Append(@, <<fn, obj, info, phase, size>>)]

\* the record of a call of createFunction with the buffer and size it gets
Invoked(m, cf, buffer, size) ==
  [m EXCEPT !.log = Append(@, <<"createFunction", cf, buffer, "call", size>>)]

-----------------------------------------------------------------------------
(* Attribute fetcher and property-table builder                            *)

\* a fetcher that issues the fill query whatever size the driver reports
GetValue_AlwaysFill(m, w, fn, obj, info, cf) ==
  With([r1 \in {GetInfo(w, fn, obj, info, "size")} |->
    IF r1.status # CL_SUCCESS
      THEN Outcome(CalledSized(m, fn, obj, info, "size", 0), <<>>)
    ELSE With([r2 \in {GetInfo(w, fn, obj, info, "fill")} |->
      With([m2 \in {CalledSized(CalledSized(m, fn, obj, info, "size", 0),
                                fn, obj, info, "fill", r1.size)} |->
        IF r2.status # CL_SUCCESS \/ r1.size = 0 THEN Outcome(m2, <<>>)
        ELSE Create(cf, Invoked(m2, cf, r2.data, r1.size), r2.data, r1.size)])])])

\* cliValue* GetValue (getInfoFunction, clObject, info, pool, createFunction):
\* NIV_SAFE_CL returns nullptr when the driver reports a failure
GetValue(m, w, fn, obj, info, cf) ==
  With([r1 \in {GetInfo(w, fn, obj, info, "size")} |->
    IF r1.status # CL_SUCCESS
      THEN Outcome(CalledSized(m, fn, obj, info, "size", 0), <<>>)
    ELSE IF r1.size = 0
      THEN Outcome(CalledSized(m, fn, obj, info, "size", 0), <<>>)
    ELSE With([r2 \in {GetInfo(w, fn, obj, info, "fill")} |->
      With([m2 \in {CalledSized(CalledSized(m, fn, obj, info, "size", 0),
                                fn, obj, info, "fill", r1.size)} |->
        IF r2.status # CL_SUCCESS THEN Outcome(m2, <<>>)
        ELSE Create(cf, Invoked(m2, cf, r2.data, r1.size), r2.data, r1.size)])])])

\* a builder that stays at the node's first property
SkipToLast_Stay(properties, lastProperty) == lastProperty

RECURSIVE SkipToLast(_, _)
\* while (lastProperty && lastProperty->next) lastProperty = lastProperty->next;
\* a property pointer is the position in the node's list, null is 0
SkipToLast(properties, lastProperty) ==
  IF lastProperty # 0 /\ lastProperty < Len(properties)
    THEN SkipToLast(properties, lastProperty + 1)
    ELSE lastProperty

\* auto lastProperty = cliNode->firstProperty, then the skip to the end
LastProperty(properties) ==
  SkipToLast(properties, IF Len(properties) = 0 THEN 0 ELSE 1)

\* GetProperties, the loop body for the entry `info` of the container:
\* lastProperty->next = property, or cliNode->firstProperty = property when
\* there is no last; what the overwritten pointer led to is unlinked
GetProperty(m, w, node, fn, obj, info, lastProperty) ==
  With([property \in {Allocate(m, SizeofProperty)} |->
    IF property.m.exc THEN Thrown(property.m)
    ELSE With([value \in {GetValue(property.m, w, fn, obj, info.info, info.cf)} |->
      IF value.m.exc THEN Thrown(value.m)
      ELSE Outcome([value.m EXCEPT !.heap[node].firstProperty =
                      Append(SubSeq(@, 1, lastProperty),
                             [type |-> info.type, name |-> info.n, hint |-> info.h,
                              value |-> value.result])],
                   NULL)])])

RECURSIVE GetPropertiesLoop(_, _, _, _, _, _, _, _, _)
\* the passes lo..hi of the loop in order, `last` being lastProperty before
\* the first pass: each pass moves lastProperty on by one.  A pass that
\* throws ends the loop (the range is halved, so that the evaluation depth
\* stays logarithmic in the table length)
GetPropertiesLoop(m, w, node, fn, obj, container, lo, hi, last) ==
  IF lo > hi THEN Outcome(m, NULL)
  ELSE IF lo = hi
    THEN GetProperty(m, w, node, fn, obj, container[lo], last + (lo - 1))
  ELSE With([left \in {GetPropertiesLoop(m, w, node, fn, obj, container,
                                         lo, (lo + hi) \div 2, last)} |->
         IF left.m.exc THEN Thrown(left.m)
         ELSE GetPropertiesLoop(left.m, w, node, fn, obj, container,
                                (lo + hi) \div 2 + 1, hi, last)])

\* void GetProperties (pool, cliNode, f, clObject, container)
GetProperties(m, w, node, fn, obj, container) ==
  GetPropertiesLoop(m, w, node, fn, obj, container, 1, Len(container),
                    LastProperty(m.heap[node].firstProperty))
-----------------------------------------------------------------------------
(* Tree assembler                                                          *)

ImageType(type, n) == [type |-> type, n |-> n]

types_CL_1_0 ==
  <<ImageType("CL_MEM_OBJECT_IMAGE1D", "Image1D"),
    ImageType("CL_MEM_OBJECT_IMAGE2D", "Image2D"),
    ImageType("CL_MEM_OBJECT_IMAGE3D", "Image3D")>>

types_CL_1_2 ==
  <<ImageType("CL_MEM_OBJECT_IMAGE1D_BUFFER", "Image1DBuffer"),
    ImageType("CL_MEM_OBJECT_IMAGE1D_ARRAY", "Image1DArray"),
    ImageType("CL_MEM_OBJECT_IMAGE2D_ARRAY", "Image2DArray")>>

\* a query of all six image types, whatever the device version
ImageTypes_All(clVersion) == types_CL_1_0 \o types_CL_1_2

\* GatherContextInfo: the image types queried for a device version
ImageTypes(clVersion) ==
  IF VersionGe(clVersion, Version(1, 2)) THEN types_CL_1_0 \o types_CL_1_2
  ELSE types_CL_1_0

\* a link that always stores the node as the owner's first child
Link_FirstOnly(m, owner, last, node) == [m EXCEPT !.heap[owner].firstChild = node]

\* the list link made after a loop body: last->next = node, or *first = node
\* when there is no last
Link(m, owner, last, node) ==
  IF last # NULL THEN [m EXCEPT !.heap[last].next = node]
  ELSE [m EXCEPT !.heap[owner].firstChild = node]

\* GatherContextInfo, the body of the loop over the formats: the node of
\* one format with its two properties
FormatNode(m, format) ==
  With([formatcliNode \in {AllocateNode(m)} |->
    IF formatcliNode.m.exc THEN Thrown(formatcliNode.m)
    ELSE With([channelOrderProperty \in {Allocate(formatcliNode.m, SizeofProperty)} |->
      IF channelOrderProperty.m.exc THEN Thrown(channelOrderProperty.m)
      ELSE With([order \in {CreateValueString(channelOrderProperty.m,
                   Chars(ChannelOrderToString(format.image_channel_order)))} |->
        IF order.m.exc THEN Thrown(order.m)
        ELSE With([channelDataTypeProperty \in {Allocate(order.m, SizeofProperty)} |->
          IF channelDataTypeProperty.m.exc THEN Thrown(channelDataTypeProperty.m)
          ELSE With([dataType \in {CreateValueString(channelDataTypeProperty.m,
                       Chars(ChannelDataTypeToString(format.image_channel_data_type)))} |->
            IF dataType.m.exc THEN Thrown(dataType.m)
            ELSE Outcome(
                   [dataType.m EXCEPT
                      !.heap[formatcliNode.result].name = "Format",
                      !.heap[formatcliNode.result].firstProperty =
                         <<[type |-> "String", name |-> "ChannelOrder", hint |-> "",
                            value |-> order.result],
                           [type |-> "String", name |-> "ChannelDataType", hint |-> "",
                            value |-> dataType.result]>>],
                   formatcliNode.result)])])])])])

RECURSIVE FormatsLoop(_, _, _, _, _)
\* GatherContextInfo, the loop over the formats of one image type
FormatsLoop(m, formats, k, imageFormatNode, lastFormat) ==
  IF k > Len(formats) THEN Outcome(m, NULL)
  ELSE With([formatcliNode \in {FormatNode(m, formats[k])} |->
         IF formatcliNode.m.exc THEN Thrown(formatcliNode.m)
         ELSE FormatsLoop(Link(formatcliNode.m, imageFormatNode, lastFormat,
                               formatcliNode.result),
                          formats, k + 1, imageFormatNode, formatcliNode.result)])

\* GatherContextInfo, the body of the loop over the image types from the
\* second format query on; yields whether the function goes on
ImageFormats(m, w, ctx, t, imageFormatNode) ==
  With([r2 \in {GetSupportedImageFormats(w, ctx, t.type, "fill")} |->
    With([m2 \in {Called(m, "clGetSupportedImageFormats", ctx, t.type, "fill")} |->
      IF r2.status # CL_SUCCESS THEN Outcome(m2, FALSE)
      ELSE With([done \in {FormatsLoop(m2, r2.formats, 1, imageFormatNode, NULL)} |->
             IF done.m.exc THEN Thrown(done.m) ELSE Outcome(done.m, TRUE)])])])

RECURSIVE ImageTypesLoop(_, _, _, _, _, _, _)
\* GatherContextInfo, the loop over the image types; NIV_SAFE_CL returns
\* nullptr when a format query fails
ImageTypesLoop(m, w, ctx, types, k, imageFormatsNode, lastImageFormatNode) ==
  IF k > Len(types) THEN Outcome(m, imageFormatsNode)
  ELSE
    With([imageFormatNode \in {AllocateNode(m)} |->
      IF imageFormatNode.m.exc THEN Thrown(imageFormatNode.m)
      ELSE
        With([r1 \in {GetSupportedImageFormats(w, ctx, types[k].type, "size")} |->
          With([m1 \in {[Called(imageFormatNode.m, "clGetSupportedImageFormats", ctx,
                                types[k].type, "size")
                           EXCEPT !.heap[imageFormatNode.result].kind = types[k].n,
                                  !.heap[imageFormatNode.result].name = "ObjectType"]} |->
            IF r1.status # CL_SUCCESS THEN Outcome(m1, NULL)
            ELSE IF r1.num = 0
              THEN ImageTypesLoop(m1, w, ctx, types, k + 1, imageFormatsNode,
                                  lastImageFormatNode)
            ELSE
              With([formats \in {ImageFormats(m1, w, ctx, types[k],
                                              imageFormatNode.result)} |->
                IF formats.m.exc THEN Thrown(formats.m)
                ELSE IF ~formats.result THEN Outcome(formats.m, NULL)
                ELSE ImageTypesLoop(
                       Link(formats.m, imageFormatsNode, lastImageFormatNode,
                            imageFormatNode.result),
                       w, ctx, types, k + 1, imageFormatsNode,
                       imageFormatNode.result)])])])])

\* cliNode* GatherContextInfo (cl_context ctx, Pool<>& pool, const Version clVersion)
GatherContextInfo(m, w, ctx, clVersion) ==
  With([imageFormatsNode \in {AllocateNode(m)} |->
    IF imageFormatsNode.m.exc THEN Thrown(imageFormatsNode.m)
    ELSE ImageTypesLoop(
           [imageFormatsNode.m EXCEPT !.heap[imageFormatsNode.result].name =
              "ImageFormats"],
           w, ctx, ImageTypes(clVersion), 1, imageFormatsNode.result, NULL)])

\* GatherDeviceInfo from clCreateContext on: the context is released when
\* GatherContextInfo returns, and stays open when it throws
GatherDeviceContext(m, w, id, deviceNode, version) ==
  With([c \in {CreateContext(w, id)} |->
    IF c.result # CL_SUCCESS
      THEN Outcome(Called(Called(m, "clCreateContext", id, "", ""),
                          "clReleaseContext", c.ctx, "", ""),
                   deviceNode)
    ELSE With([g \in {GatherContextInfo(
                        [Called(m, "clCreateContext", id, "", "")
                           EXCEPT !.open = @ \cup {c.ctx}],
                        w, c.ctx, version)} |->
           IF g.m.exc THEN Thrown(g.m)
           ELSE Outcome([Called(g.m, "clReleaseContext", c.ctx, "", "") EXCEPT
                           !.open = @ \ {c.ctx},
                           !.heap[deviceNode].firstChild = g.result],
                        deviceNode)])])

\* GatherDeviceInfo from the parsed version on
GatherDeviceProperties(m, w, id, deviceNode, version) ==
  With([fetched \in {GetProperties(m, w, deviceNode, "clGetDeviceInfo", id,
                                   PropertiesToFetch(version))} |->
    IF fetched.m.exc THEN Thrown(fetched.m)
    ELSE GatherDeviceContext(fetched.m, w, id, deviceNode, version)])

\* cliNode* GatherDeviceInfo (cl_device_id id, Pool<>& pool)
GatherDeviceInfo(m, w, id) ==
  With([deviceNode \in {AllocateNode(m)} |->
    IF deviceNode.m.exc THEN Thrown(deviceNode.m)
    ELSE
      With([r1 \in {GetInfo(w, "clGetDeviceInfo", id, "CL_DEVICE_VERSION", "size")} |->
        With([m1 \in {[Called(deviceNode.m, "clGetDeviceInfo", id, "CL_DEVICE_VERSION",
                              "size")
                         EXCEPT !.heap[deviceNode.result].name = "Device"]} |->
          IF r1.status # CL_SUCCESS THEN Outcome(m1, NULL)
          ELSE
            With([r2 \in {GetInfo(w, "clGetDeviceInfo", id, "CL_DEVICE_VERSION",
                                  "fill")} |->
              With([m2 \in {Called(m1, "clGetDeviceInfo", id, "CL_DEVICE_VERSION",
                                   "fill")} |->
                IF r2.status # CL_SUCCESS THEN Outcome(m2, NULL)
                ELSE With([version \in {ParseVersion(r2.data)} |->
                       GatherDeviceProperties(m2, w, id, deviceNode.result,
                                              version)])])])])])])

RECURSIVE DevicesLoop(_, _, _, _, _, _)
\* GatherOpenCLInfo, the loop over the devices of one platform
DevicesLoop(m, w, deviceIds, k, devicesNode, last) ==
  IF k > Len(deviceIds) THEN Outcome(m, NULL)
  ELSE With([deviceNode \in {GatherDeviceInfo(m, w, deviceIds[k])} |->
         IF deviceNode.m.exc THEN Thrown(deviceNode.m)
         ELSE DevicesLoop(Link(deviceNode.m, devicesNode, last, deviceNode.result),
                          w, deviceIds, k + 1, devicesNode, deviceNode.result)])

\* GatherOpenCLInfo, the loop body from the second device enumeration on;
\* yields whether the function goes on
GatherDevices(m, w, platformId, platformNode) ==
  With([r2 \in {GetDeviceIDs(w, platformId, "fill")} |->
    With([m2 \in {Called(m, "clGetDeviceIDs", platformId, "", "fill")} |->
      IF r2.status # CL_SUCCESS THEN Outcome(m2, FALSE)
      ELSE
        With([devicesNode \in {AllocateNode(m2)} |->
          IF devicesNode.m.exc THEN Thrown(devicesNode.m)
          ELSE
            With([done \in {DevicesLoop(
                              [devicesNode.m EXCEPT
                                 !.heap[devicesNode.result].name = "Devices",
                                 !.heap[platformNode].firstChild = devicesNode.result],
                              w, r2.ids, 1, devicesNode.result, NULL)} |->
              IF done.m.exc THEN Thrown(done.m) ELSE Outcome(done.m, TRUE)])])])])

\* GatherOpenCLInfo, the loop body up to the first device enumeration;
\* yields whether the function goes on
GatherPlatform(m, w, platformId, rootNode, lastPlatformNode, platformNode) ==
  With([fetched \in {GetProperties(
                       [Link(m, rootNode,
                             IF m.heap[rootNode].firstChild # NULL
                               THEN lastPlatformNode ELSE NULL,
                             platformNode)
                          EXCEPT !.heap[platformNode].name = "Platform"],
                       w, platformNode, "clGetPlatformInfo", platformId,
                       PlatformInfos)} |->
    IF fetched.m.exc THEN Thrown(fetched.m)
    ELSE
      With([r1 \in {GetDeviceIDs(w, platformId, "size")} |->
        With([m1 \in {Called(fetched.m, "clGetDeviceIDs", platformId, "", "size")} |->
          IF r1.status # CL_SUCCESS THEN Outcome(m1, FALSE)
          ELSE GatherDevices(m1, w, platformId, platformNode)])])])

RECURSIVE PlatformsLoop(_, _, _, _, _, _)
\* GatherOpenCLInfo, the loop over the platforms; NIV_SAFE_CL returns
\* nullptr when a device enumeration fails
PlatformsLoop(m, w, platformIds, k, rootNode, lastPlatformNode) ==
  IF k > Len(platformIds) THEN Outcome(m, rootNode)
  ELSE
    With([platformNode \in {AllocateNode(m)} |->
      IF platformNode.m.exc THEN Thrown(platformNode.m)
      ELSE
        With([platform \in {GatherPlatform(platformNode.m, w, platformIds[k], rootNode,
                                           lastPlatformNode, platformNode.result)} |->
          IF platform.m.exc THEN Thrown(platform.m)
          ELSE IF ~platform.result THEN Outcome(platform.m, NULL)
          ELSE PlatformsLoop(platform.m, w, platformIds, k + 1, rootNode,
                             platformNode.result)])])

\* cliNode* GatherOpenCLInfo (Pool<>& pool)
GatherOpenCLInfo(m, w) ==
  With([rootNode \in {AllocateNode(m)} |->
    IF rootNode.m.exc THEN Thrown(rootNode.m)
    ELSE
      With([r1 \in {GetPlatformIDs(w, "size")} |->
        With([m1 \in {[Called(rootNode.m, "clGetPlatformIDs", <<>>, "", "size")
                         EXCEPT !.heap[rootNode.result].name = "Platforms"]} |->
          IF r1.status # CL_SUCCESS THEN Outcome(m1, NULL)
          ELSE IF r1.num <= 0 THEN Outcome(m1, NULL)
          ELSE
            With([r2 \in {GetPlatformIDs(w, "fill")} |->
              With([m2 \in {Called(m1, "clGetPlatformIDs", <<>>, "", "fill")} |->
                IF r2.status # CL_SUCCESS THEN Outcome(m2, NULL)
                ELSE PlatformsLoop(m2, w, r2.ids, 1, rootNode.result, NULL)])])])])])
-----------------------------------------------------------------------------
(* The explored worlds                                                     *)

\* the version the devices report where the version is not what varies
BaseVersion == Version(1, 2)

Versions == {Version(a, b) : a \in 1..MaxMajor, b \in 0..MaxMinor}

\* a platform reports at least one device
DeviceLists(versions) == UNION {[1..n -> versions] : n \in 1..MaxDevices}

PlatformLists(versions, maxPlatforms) ==
  UNION {[1..n -> [devices : DeviceLists(versions)]] : n \in 0..maxPlatforms}

DeviceHandles(ps) ==
  UNION {{<<p, d>> : d \in 1..Len(ps[p].devices)} : p \in 1..Len(ps)}

FailKinds == {"size", "fill"}

\* the call sites that can misbehave in a world with the platforms ps
FaultsOf(ps) ==
  {NoFault}
  \cup {Fault("clGetPlatformIDs", <<>>, "", k) : k \in FailKinds}
  \cup {Fault("clGetPlatformInfo", <<p>>, PlatformInfos[i].info, k) :
          p \in 1..Len(ps), i \in 1..Min(MaxFaultIndex, Len(PlatformInfos)),
          k \in FailKinds \cup {"empty", "oversize"}}
  \cup {Fault("clGetDeviceIDs", <<p>>, "", k) : p \in 1..Len(ps), k \in FailKinds}
  \cup {Fault("clGetDeviceInfo", id, "CL_DEVICE_VERSION", k) :
          id \in DeviceHandles(ps), k \in FailKinds}
  \cup {Fault("clGetDeviceInfo", id, infos_CL_shared[i].info, k) :
          id \in DeviceHandles(ps), i \in 1..Min(MaxFaultIndex, Len(infos_CL_shared)),
          k \in FailKinds \cup {"empty"}}
  \cup {Fault("clGetDeviceInfo", id, "CL_DEVICE_EXTENSIONS", k) :
          id \in DeviceHandles(ps), k \in FailKinds \cup {"empty", "oversize"}}
  \cup {Fault("clCreateContext", id, "", "fail") : id \in DeviceHandles(ps)}
  \cup {Fault("clGetSupportedImageFormats", id, ImageTypeIds[t], k) :
          id \in DeviceHandles(ps), t \in 1..Min(MaxFaultIndex, Len(ImageTypeIds)),
          k \in FailKinds}

\* the platforms of the worlds with a misbehaving call: a platform with two
\* devices followed by a platform with one
FaultShape ==
  <<[devices |-> <<BaseVersion, BaseVersion>>], [devices |-> <<BaseVersion>>]>>

\* the memory the system has for pool blocks: any number, or n blocks
Unlimited == [limited |-> FALSE, blocks |-> 0]

Limited(n) == [limited |-> TRUE, blocks |-> n]

\* the last attribute GatherDeviceInfo fetches for the first device holds a
\* string that fills a block, so that the next allocation needs a new one
LargeDriverVersion == Fault("clGetDeviceInfo", <<1, 1>>, "CL_DRIVER_VERSION", "large")

\* every shape of platforms and devices on a driver that answers every call,
\* every format profile and every device version on one platform with one
\* device, any one misbehaving call on FaultShape, and FaultShape with the
\* block-filling string on a system with memory for 0..MaxBlocks blocks
Worlds ==
  {[platforms |-> ps, formats |-> 0, fault |-> NoFault, memory |-> Unlimited] :
     ps \in PlatformLists({BaseVersion}, MaxPlatforms)}
  \cup {[platforms |-> <<[devices |-> <<v>>]>>, formats |-> f, fault |-> NoFault,
          memory |-> Unlimited] :
          v \in Versions, f \in 0..(MaxFormats + 1)}
  \cup {[platforms |-> FaultShape, formats |-> 1, fault |-> x, memory |-> Unlimited] :
          x \in FaultsOf(FaultShape)}
  \cup {[platforms |-> FaultShape, formats |-> 1, fault |-> LargeDriverVersion,
          memory |-> y] :
          y \in {Unlimited} \cup {Limited(n) : n \in 0..MaxBlocks}}

-----------------------------------------------------------------------------
(* State                                                                   *)

VARIABLES
  world,     \* the driver
  info,      \* the cliInfo object: its pool and its root pointer
  heap,      \* the cliNode records in pool memory, by address
  open,      \* the contexts created and not released
  queryLog,  \* the driver calls issued by the most recent API call
  ret,       \* the most recent API call and the status it returned
  out,       \* the caller's cliNode* that cliInfo_GetRoot writes through
  gathers,   \* the number of cliInfo_Gather calls so far
  unit,      \* a library function called on its own: its arguments and result
  decoders,  \* the CreateCharList calls running side by side
  program    \* the command-line program: where main is and what it has done

vars == <<world, info, heap, open, queryLog, ret, out, gathers, unit, decoders, program>>

\* the variables of the library's client
lib == <<world, info, heap, open, queryLog, ret, out, gathers>>

\* no function is called on its own, no decoder runs, main has not started
NoCall == [fn |-> "none"]

NoDecoders == <<>>

NoProgram == [pc |-> "none"]

\* the caller's pointer before anything is stored in it
Indeterminate == -1

Returned(fn, status, infoNull, rootNull) ==
  [fn |-> fn, status |-> status, infoNull |-> infoNull, rootNull |-> rootNull]

\* the state after cliInfo_Create: struct cliInfo { Pool<> pool; cliNode* root = nullptr; }
Init ==
  /\ world \in Worlds
  /\ info = [pool |-> EmptyPool, root |-> NULL]
  /\ heap = <<>>
  /\ open = {}
  /\ queryLog = <<>>
  /\ ret = Returned("cliInfo_Create", CLI_Success, FALSE, FALSE)
  /\ out = Indeterminate
  /\ gathers = 0
  /\ unit = NoCall
  /\ decoders = NoDecoders
  /\ program = NoProgram

\* a guard that takes every document for an empty one
HoldsTree_Never(i) == FALSE

\* if (info->root): the document holds a tree
HoldsTree(i) == i.root # NULL

\* the body of cliInfo_Gather: what a call does to the document, the
\* driver and the caller's view
GatherCall ==
  /\ gathers < MaxGathers
  /\ gathers' = gathers + 1
  /\ IF HoldsTree(info)
       THEN /\ ret' = Returned("cliInfo_Gather", CLI_Error, FALSE, FALSE)
            /\ queryLog' = <<>>
            /\ UNCHANGED <<world, info, heap, open, out>>
       ELSE \E g \in {GatherOpenCLInfo(Machine(info.pool, heap, open, world.memory),
                                        world)} :
              /\ info' = [pool |-> g.m.pool,
                          root |-> IF g.m.exc THEN info.root ELSE g.result]
              /\ heap' = g.m.heap
              /\ open' = g.m.open
              /\ queryLog' = g.m.log
              /\ ret' = Returned("cliInfo_Gather",
                                 IF g.m.exc THEN CLI_Error ELSE CLI_Success,
                                 FALSE, FALSE)
              /\ UNCHANGED <<world, out>>

\* int cliInfo_Gather (cliInfo* info)
cliInfo_Gather ==
  /\ GatherCall
  /\ UNCHANGED <<unit, decoders, program>>

\* cliInfo_GetRoot without its test of info->root
GetRootStatus_NoRootCheck(i, infoNull, rootNull) ==
  IF infoNull THEN CLI_Error
  ELSE IF rootNull THEN CLI_Error
  ELSE CLI_Success

\* the status cliInfo_GetRoot returns for a document
GetRootStatus(i, infoNull, rootNull) ==
  IF infoNull THEN CLI_Error
  ELSE IF i.root = NULL THEN CLI_Error
  ELSE IF rootNull THEN CLI_Error
  ELSE CLI_Success

\* int cliInfo_GetRoot (const cliInfo* info, cliNode** root), called with a
\* null or valid info and a null or valid root
cliInfo_GetRoot ==
  \E infoNull \in BOOLEAN, rootNull \in BOOLEAN :
    /\ ret' = Returned("cliInfo_GetRoot", GetRootStatus(info, infoNull, rootNull),
                       infoNull, rootNull)
    /\ out' = IF GetRootStatus(info, infoNull, rootNull) = CLI_Success
                THEN info.root ELSE out
    /\ queryLog' = <<>>
    /\ UNCHANGED <<world, info, heap, open, gathers>>
    /\ UNCHANGED <<unit, decoders, program>>

Next == cliInfo_Gather \/ cliInfo_GetRoot

Spec == Init /\ [][Next]_vars


-----------------------------------------------------------------------------
(* Reading a gathered tree                                                 *)

RECURSIVE Siblings(_, _, _)
\* the nodes of a sibling list from n on, at most `fuel` of them
Siblings(h, n, fuel) ==
  IF n = NULL \/ fuel = 0 THEN <<>>
  ELSE <<n>> \o Siblings(h, h[n].next, fuel - 1)

\* the children of a node, in list order
Children(h, n) == Siblings(h, h[n].firstChild, Cardinality(DOMAIN h))

PropertyNames(node) == [k \in 1..Len(node.firstProperty) |-> node.firstProperty[k].name]

Names(table) == [k \in 1..Len(table) |-> table[k].n]

\* the values of the properties of a node that carry the name n
ValuesOf(node, n) ==
  {node.firstProperty[k].value :
     k \in {j \in 1..Len(node.firstProperty) : node.firstProperty[j].name = n}}

\* the string value a decoder stores for the bytes of a C string
StringValue(bytes) == <<[s |-> CStringAt(bytes, 1)]>>

\* the Platform nodes under the root, in list order
PlatformNodes == IF info.root = NULL THEN <<>> ELSE Children(heap, info.root)

\* the Device nodes of the p-th Platform node, in list order
DeviceNodes(p) ==
  IF p > Len(PlatformNodes) THEN <<>>
  ELSE IF heap[PlatformNodes[p]].firstChild = NULL THEN <<>>
  ELSE Children(heap, heap[PlatformNodes[p]].firstChild)

\* the nodes that hang under a node of an object of the driver
NodesOf(obj) ==
  IF Len(obj) = 1
    THEN (IF obj[1] <= Len(PlatformNodes) THEN {PlatformNodes[obj[1]]} ELSE {})
    ELSE (IF obj[2] <= Len(DeviceNodes(obj[1])) THEN {DeviceNodes(obj[1])[obj[2]]} ELSE {})

RECURSIVE Reach(_, _, _)
\* the closure of `seen` under firstChild and next
Reach(h, frontier, seen) ==
  IF frontier = {} THEN seen
  ELSE LET new == ({h[a].firstChild : a \in frontier} \cup {h[a].next : a \in frontier})
                  \ (seen \cup {NULL})
       IN  Reach(h, new, seen \cup new)

TreeNodes(h, root) == Reach(h, {root}, {root})

\* the links of the tree that point at the node n
LinksTo(h, root, n) ==
  {l \in TreeNodes(h, root) \X {"firstChild", "next"} :
     (IF l[2] = "firstChild" THEN h[l[1]].firstChild ELSE h[l[1]].next) = n}

\* every node of the tree is the target of one link, the root of none
SinglePath(h, root) ==
  \A n \in TreeNodes(h, root) :
    Cardinality(LinksTo(h, root, n)) = IF n = root THEN 0 ELSE 1

\* the number of entries of a sequence equal to x
Count(s, x) == Cardinality({k \in 1..Len(s) : s[k] = x})

\* two sequences with the same entries, each as often
SameEntries(a, b) ==
  /\ Len(a) = Len(b)
  /\ \A k \in 1..Len(a) : Count(a, a[k]) = Count(b, a[k])

\* strcmp order of two property names
NameLe(a, b) == Strcmp(Chars(a), Chars(b)) <= 0

Ascending(names) == \A k \in 1..(Len(names) - 1) : NameLe(names[k], names[k + 1])

\* the status the driver gave to a call of the log
CallStatus(w, call) ==
  CASE call[1] \in {"clGetPlatformInfo", "clGetDeviceInfo"} ->
         GetInfo(w, call[1], call[2], call[3], call[4]).status
    [] call[1] = "clGetSupportedImageFormats" ->
         GetSupportedImageFormats(w, call[2], call[3], call[4]).status
    [] call[1] = "clGetPlatformIDs" -> GetPlatformIDs(w, call[4]).status
    [] call[1] = "clGetDeviceIDs" -> GetDeviceIDs(w, call[2], call[4]).status
    [] call[1] = "clCreateContext" -> CreateContext(w, call[2]).result
    [] OTHER -> CL_SUCCESS

IsAttributeQuery(call) == call[1] \in {"clGetPlatformInfo", "clGetDeviceInfo"}

IsFormatQuery(call) == call[1] = "clGetSupportedImageFormats"

\* the calls of the last gather that the driver answered with a failure
FailedCalls == {k \in 1..Len(queryLog) : CallStatus(world, queryLog[k]) # CL_SUCCESS}

\* the last call was a gather on a driver that answers every call, and it
\* left a tree
GatheredClean ==
  ret.fn = "cliInfo_Gather" /\ world.fault = NoFault /\ info.root # NULL

\* the version the driver reports for a device
VersionOf(p, d) == world.platforms[p].devices[d]

\* the devices of the world
Devices == DeviceHandles(world.platforms)

-----------------------------------------------------------------------------
(* Document state machine                                                  *)

\* C1: a cliInfo_Gather call on a document that holds a tree returns
\* CLI_Error, issues no driver call, and leaves the root pointer and every
\* node as they were.
C1_GatherOnPopulated ==
  [][(ret'.fn = "cliInfo_Gather" /\ info.root # NULL)
       => (/\ ret'.status = CLI_Error
           /\ queryLog' = <<>>
           /\ info' = info
           /\ heap' = heap)]_vars

\* a second gather was refused on a document that holds a tree
C1_Refused ==
  /\ ret.fn = "cliInfo_Gather"
  /\ ret.status = CLI_Error
  /\ info.root # NULL
  /\ gathers = 2

\* C2: after a gather that left no root, every later cliInfo_Gather call
\* returns CLI_Error and issues no driver call.
C2_FailedIsTerminal ==
  [][(ret'.fn = "cliInfo_Gather" /\ gathers > 0 /\ info.root = NULL)
       => (ret'.status = CLI_Error /\ queryLog' = <<>>)]_vars

\* C3: when the driver reports no platform, cliInfo_Gather returns
\* CLI_Error and a following cliInfo_GetRoot returns CLI_Error.
C3_ZeroPlatforms ==
  (ret.fn = "cliInfo_Gather" /\ world.fault = NoFault /\ world.platforms = <<>>)
    => (ret.status = CLI_Error /\ GetRootStatus(info, FALSE, FALSE) = CLI_Error)

\* C4: after a cliInfo_Gather call that returned CLI_Success, a
\* cliInfo_GetRoot call returns CLI_Success and yields a root that is not
\* null and is named "Platforms".
C4_SuccessMeansTree ==
  (ret.fn = "cliInfo_Gather" /\ ret.status = CLI_Success)
    => (/\ GetRootStatus(info, FALSE, FALSE) = CLI_Success
        /\ info.root # NULL
        /\ heap[info.root].name = "Platforms")

\* C5: cliInfo_GetRoot returns CLI_Success exactly when it is given a
\* document and an output pointer and the document holds a tree that a
\* gather produced; then it stores the root, the same one on every call;
\* otherwise it returns CLI_Error and leaves the output pointer alone.
C5_GetRootContract ==
  [][(ret'.fn = "cliInfo_GetRoot")
       => (/\ ret'.status \in {CLI_Success, CLI_Error}
           /\ (ret'.status = CLI_Success)
                <=> (/\ ~ret'.infoNull
                     /\ ~ret'.rootNull
                     /\ gathers > 0
                     /\ info.root \in DOMAIN heap)
           /\ (ret'.status = CLI_Error) => (out' = out)
           /\ (ret'.status = CLI_Success)
                => (out' = info.root /\ (out # Indeterminate => out' = out)))]_vars

\* the root was handed out a second time
C5_RootReturned ==
  /\ ret.fn = "cliInfo_GetRoot"
  /\ ret.status = CLI_Success
  /\ ~ret.infoNull /\ ~ret.rootNull
  /\ out = info.root
  /\ out \in DOMAIN heap

-----------------------------------------------------------------------------
(* Failure propagation                                                     *)

\* C6: if an attribute query or an image-format query failed during a
\* gather, cliInfo_Gather returns CLI_Error and the document is left without
\* a root.
C6_NoPartialSuccess ==
  (/\ ret.fn = "cliInfo_Gather"
   /\ \E k \in FailedCalls : IsAttributeQuery(queryLog[k]) \/ IsFormatQuery(queryLog[k]))
    => (ret.status = CLI_Error /\ info.root = NULL)

\* C7: after a failed attribute query on an object the gather issues no
\* further attribute query on that object, and the node of the object gets
\* no property of the failed attribute with an empty value list.
C7_FailurePropagates ==
  (ret.fn = "cliInfo_Gather")
    => \A k \in FailedCalls :
         IsAttributeQuery(queryLog[k])
           => (/\ \A j \in (k + 1)..Len(queryLog) :
                    ~(/\ queryLog[j][1] = queryLog[k][1]
                      /\ queryLog[j][2] = queryLog[k][2])
               /\ \A n \in NodesOf(queryLog[k][2]) :
                    <<>> \notin ValuesOf(heap[n], queryLog[k][3]))

-----------------------------------------------------------------------------
(* Table selection and property order                                      *)

\* the version-gated tables GatherDeviceInfo adds for a version: the table
\* of the version itself for 1.0, 1.1 and 1.2, and the 1.2 and 2.0 tables
\* from 2.0 on
TablesOfVersion(v) ==
  (((infos_CL_shared
     \o (IF v = Version(1, 0) THEN infos_CL_1_0 ELSE <<>>))
     \o (IF v = Version(1, 1) THEN infos_CL_1_1 ELSE <<>>))
     \o (IF v = Version(1, 2) \/ VersionGe(v, Version(2, 0)) THEN infos_CL_1_2 ELSE <<>>))
     \o (IF VersionGe(v, Version(2, 0)) THEN infos_CL_2_0 ELSE <<>>)

\* the baseline table and every version-gated table of a version <= v
TablesUpTo(v) ==
  ((((infos_CL_shared
      \o (IF VersionLe(Version(1, 0), v) THEN infos_CL_1_0 ELSE <<>>))
      \o (IF VersionLe(Version(1, 1), v) THEN infos_CL_1_1 ELSE <<>>))
      \o (IF VersionLe(Version(1, 2), v) THEN infos_CL_1_2 ELSE <<>>))
      \o (IF VersionLe(Version(2, 0), v) THEN infos_CL_2_0 ELSE <<>>))

\* C8 (as the code has it): the properties of a device node are the entries
\* of the baseline table and of the tables the device's version selects:
\* the 1.0 table only for version 1.0, the 1.1 table only for 1.1, the 1.2
\* table for 1.2 and for every version from 2.0 on, the 2.0 table for every
\* version from 2.0 on, and no gated table for any other version.
C8_TablesOfVersion ==
  GatheredClean
    => \A id \in Devices :
         \A n \in NodesOf(id) :
           SameEntries(PropertyNames(heap[n]), Names(TablesOfVersion(VersionOf(id[1], id[2]))))

\* a device of version 1.2 was gathered with the entries of the 1.2 table
\* and without those of the 1.1 table
C8_Device_1_2 ==
  /\ GatheredClean
  /\ \E id \in Devices :
       /\ VersionOf(id[1], id[2]) = Version(1, 2)
       /\ \E n \in NodesOf(id) :
            /\ ValuesOf(heap[n], "CL_DEVICE_BUILT_IN_KERNELS") # {}
            /\ ValuesOf(heap[n], "CL_DEVICE_HOST_UNIFIED_MEMORY") = {}

\* C8 (as stated): the properties of a device node are the entries of the
\* baseline table and of every version-gated table of a version <= the
\* device's version.
C8_TablesUpToVersion ==
  GatheredClean
    => \A id \in Devices :
         \A n \in NodesOf(id) :
           SameEntries(PropertyNames(heap[n]), Names(TablesUpTo(VersionOf(id[1], id[2]))))

\* C9 (as the code has it): the properties of a Platform node are in the
\* order of the platform table; the properties of a Device node are the
\* entries of the selected tables in ascending strcmp order of their names;
\* the properties of a Format node are ChannelOrder, ChannelDataType.
C9_PropertyOrder ==
  GatheredClean
    => /\ \A p \in 1..Len(PlatformNodes) :
            PropertyNames(heap[PlatformNodes[p]]) = Names(PlatformInfos)
       /\ \A id \in Devices :
            \A n \in NodesOf(id) :
              /\ Ascending(PropertyNames(heap[n]))
              /\ SameEntries(PropertyNames(heap[n]),
                             Names(TablesOfVersion(VersionOf(id[1], id[2]))))
       /\ \A n \in TreeNodes(heap, info.root) :
            heap[n].name = "Format"
              => PropertyNames(heap[n]) = <<"ChannelOrder", "ChannelDataType">>

\* a device of version 1.2 was gathered: its first 1.2 entry,
\* CL_DEVICE_BUILT_IN_KERNELS, stands before the baseline entries that
\* follow it in strcmp order
C9_SortedDevice ==
  /\ GatheredClean
  /\ \E id \in Devices :
       /\ VersionOf(id[1], id[2]) = Version(1, 2)
       /\ \E n \in NodesOf(id) :
            \E k \in 1..Len(heap[n].firstProperty) :
              /\ heap[n].firstProperty[k].name = "CL_DEVICE_BUILT_IN_KERNELS"
              /\ k < Len(infos_CL_shared)

\* C9 (as stated): the properties of every node are in the order in which
\* the entries of its tables are declared.
C9_DeclarationOrder ==
  GatheredClean
    => /\ \A p \in 1..Len(PlatformNodes) :
            PropertyNames(heap[PlatformNodes[p]]) = Names(PlatformInfos)
       /\ \A id \in Devices :
            \A n \in NodesOf(id) :
              PropertyNames(heap[n]) = Names(TablesOfVersion(VersionOf(id[1], id[2])))

-----------------------------------------------------------------------------
(* Tree shape                                                              *)

\* C10: on a driver that answers every call, the tree a gather leaves is a
\* root "Platforms" with one "Platform" node per platform, in enumeration
\* order, each with the five platform properties and one child "Devices"
\* with one "Device" node per device of the platform, in enumeration order;
\* every node of the tree is reached from the root along one path.
C10_TreeShape ==
  GatheredClean
    => /\ heap[info.root].name = "Platforms"
       /\ heap[info.root].next = NULL
       /\ Len(PlatformNodes) = Len(world.platforms)
       /\ \A p \in 1..Len(PlatformNodes) :
            /\ heap[PlatformNodes[p]].name = "Platform"
            /\ PropertyNames(heap[PlatformNodes[p]])
                 = <<"CL_PLATFORM_PROFILE", "CL_PLATFORM_VERSION", "CL_PLATFORM_NAME",
                     "CL_PLATFORM_VENDOR", "CL_PLATFORM_EXTENSIONS">>
            /\ ValuesOf(heap[PlatformNodes[p]], "CL_PLATFORM_NAME")
                 = {StringValue(HandleName(<<p>>))}
            /\ Len(Children(heap, PlatformNodes[p])) = 1
            /\ heap[heap[PlatformNodes[p]].firstChild].name = "Devices"
            /\ Len(DeviceNodes(p)) = Len(world.platforms[p].devices)
            /\ \A d \in 1..Len(DeviceNodes(p)) :
                 /\ heap[DeviceNodes(p)[d]].name = "Device"
                 /\ ValuesOf(heap[DeviceNodes(p)[d]], "CL_DEVICE_NAME")
                      = {StringValue(HandleName(<<p, d>>))}
       /\ SinglePath(heap, info.root)

\* a tree of two platforms was gathered, the first with two devices
C10_TwoPlatforms ==
  /\ GatheredClean
  /\ Len(PlatformNodes) = 2
  /\ Len(DeviceNodes(1)) = 2

-----------------------------------------------------------------------------
(* Contexts and allocation failures                                        *)

\* C12: once a cliInfo_Gather call has returned, no context that the gather
\* created is still held.
C12_ContextsReleased ==
  (ret.fn = "cliInfo_Gather") => (open = {})

\* a world where an allocation of the first gather raises std::bad_alloc:
\* an attribute string longer than a pool block, or no memory for any block
AllocationFails(w) == w.fault.kind = "oversize" \/ w.memory = Limited(0)

\* the gather stopped at the failing allocation: the last driver call is the
\* fill query of the attribute whose string does not fit, and the last thing
\* done with it is the call of its decoder
AbortedAt(log, fault) ==
  /\ Len(log) >= 2
  /\ log[Len(log)][1] = "createFunction"
  /\ SubSeq(log[Len(log) - 1], 1, 4) = <<fault.site, fault.obj, fault.info, "fill">>

\* C16: in a world where an arena allocation fails during the gather, every
\* cliInfo_Gather call returns CLI_Error having stopped at the failing
\* allocation, the document's root stays null, and every cliInfo_GetRoot call
\* returns CLI_Error and stores nothing.
C16_AllocationFailureAborts ==
  (AllocationFails(world) /\ gathers > 0) =>
    /\ info.root = NULL
    /\ (ret.fn = "cliInfo_Gather") =>
         /\ ret.status = CLI_Error
         /\ (world.fault.kind = "oversize") => AbortedAt(queryLog, world.fault)
         /\ (world.memory = Limited(0)) => (heap = <<>>)
    /\ (ret.fn = "cliInfo_GetRoot") =>
         (ret.status = CLI_Error /\ out = Indeterminate)

\* C16 witness: a gather on a driver whose CL_DEVICE_EXTENSIONS string for the
\* second platform's device exceeds a block has returned CLI_Error, and the
\* caller then asked for the root with valid arguments
C16_OversizeRejected ==
  /\ world.fault = Fault("clGetDeviceInfo", <<2, 1>>, "CL_DEVICE_EXTENSIONS", "oversize")
  /\ gathers = 1
  /\ ret = Returned("cliInfo_GetRoot", CLI_Error, FALSE, FALSE)
  /\ heap # <<>>

-----------------------------------------------------------------------------
(* The library's functions called on their own: SpecCalls starts with the  *)
(* arguments of one call and applies the function to them                  *)

\* every string of at most n characters of an alphabet, without its NUL
Texts(alphabet, n) == UNION {[1..k -> alphabet] : k \in 0..n}

\* the pool and heap a call outside a gather starts with
Fresh == Machine(EmptyPool, <<>>, {}, Unlimited)

\* a driver without platforms
NoDriver == [platforms |-> <<>>, formats |-> 0, fault |-> NoFault, memory |-> Unlimited]

\* the library's client is idle during the calls
LibIdle ==
  /\ info = [pool |-> EmptyPool, root |-> NULL]
  /\ heap = <<>>
  /\ open = {}
  /\ queryLog = <<>>
  /\ ret = Returned("cliInfo_Create", CLI_Success, FALSE, FALSE)
  /\ out = Indeterminate
  /\ gathers = 0

\* the buffers handed to CreateCharList: the NUL-terminated strings over two
\* letters and the space
CharListCalls ==
  {[fn |-> "CreateCharList", buffer |-> Append(t, NUL), done |-> FALSE, result |-> <<>>] :
     t \in Texts({65, 66, SPACE}, MaxLen)}

\* CreateCharList (pool, buffer, size)
Call_CreateCharList ==
  /\ unit.fn = "CreateCharList"
  /\ ~unit.done
  /\ unit' = [unit EXCEPT !.done = TRUE,
                          !.result = CreateCharList(Fresh, unit.buffer,
                                                    Len(unit.buffer)).result]
  /\ UNCHANGED <<lib, decoders, program>>

\* the positions of a text where a maximal run of non-space characters starts
RunStarts(text) ==
  {i \in 1..Len(text) : text[i] # SPACE /\ (i = 1 \/ text[i - 1] = SPACE)}

\* the maximal run of non-space characters that starts at position i
RunAt(text, i) ==
  SubSeq(text, i, CHOOSE j \in i..Len(text) :
                    /\ \A k \in i..j : text[k] # SPACE
                    /\ (j = Len(text) \/ text[j + 1] = SPACE))

\* the k-th smallest element of a set of numbers
Nth(set, k) == CHOOSE i \in set : Cardinality({j \in set : j < i}) = k - 1

\* the maximal runs of non-space characters of a text, left to right, as
\* string values
MaximalRuns(text) ==
  [k \in 1..Cardinality(RunStarts(text)) |-> [s |-> RunAt(text, Nth(RunStarts(text), k))]]

\* the characters of a NUL-terminated buffer before its NUL
TextOf(buffer) == SubSeq(buffer, 1, Len(buffer) - 1)

\* C13: for every NUL-terminated buffer, CreateCharList yields exactly the
\* maximal runs of non-space characters of the buffer, one value per run in
\* left-to-right order, and never an empty-string value.
C13_MaximalRuns ==
  (unit.fn = "CreateCharList" /\ unit.done) =>
    /\ unit.result = MaximalRuns(TextOf(unit.buffer))
    /\ \A k \in 1..Len(unit.result) : unit.result[k] # [s |-> <<>>]

\* the decoders that end in CreateBitfield, each with a table of its own
BitfieldDecoders ==
  {"CreateDeviceFPConfig", "CreateDeviceExecCapabilities",
   "CreateDeviceMemCacheType", "CreateDeviceLocalMemType",
   "CreateDeviceAffinityDomain", "CreateDevicePartitionProperty",
   "CreateCommandQueueProperties", "CreateDeviceType",
   "CreateDeviceSVMCapabilities"}

\* the masks handed to CreateBitfield: every small mask, and the values of
\* the cl_device_partition_property constants
Masks ==
  (0..MaxMask) \cup {BitfieldFetcher("CL_DEVICE_PARTITION_EQUALLY").value + k : k \in 0..2}

BitfieldCalls ==
  {[fn |-> "CreateBitfield", cf |-> cf, config |-> c, done |-> FALSE, result |-> <<>>] :
     cf \in BitfieldDecoders, c \in Masks}

\* CreateBitfield (config, fields, pool)
Call_CreateBitfield ==
  /\ unit.fn = "CreateBitfield"
  /\ ~unit.done
  /\ unit' = [unit EXCEPT !.done = TRUE,
                          !.result = CreateBitfield(unit.config, BitfieldFields(unit.cf),
                                                    Fresh).result]
  /\ UNCHANGED <<lib, decoders, program>>

\* 2 to the power i
RECURSIVE Pow2(_)
Pow2(i) == IF i = 0 THEN 1 ELSE 2 * Pow2(i - 1)

\* the positions of the bits set in a number
Bits(n) == {i \in 0..MaxBit : (n \div Pow2(i)) % 2 = 1}

\* the entries of a table whose pattern has no bit outside the mask
Matching(mask, fields) ==
  {k \in 1..Len(fields) : Bits(fields[k].value) \subseteq Bits(mask)}

\* the names of the matching entries as string values, in table order
MatchingNames(mask, fields) ==
  [k \in 1..Cardinality(Matching(mask, fields)) |->
     [s |-> Chars(fields[Nth(Matching(mask, fields), k)].n)]]

\* C14: for every mask and every table of the program, CreateBitfield emits
\* exactly one string value for each table entry whose pattern is a subset of
\* the mask, in table declaration order, and no others; bits of the mask that
\* match no entry are ignored, and no match yields the null list.
C14_SubsetMatches ==
  (unit.fn = "CreateBitfield" /\ unit.done) =>
    unit.result = MatchingNames(unit.config, BitfieldFields(unit.cf))

\* C14 witness: the mask 0b011 decoded with the cl_device_fp_config table has
\* given the first two entries of the table
C14_Mask3 ==
  /\ unit.fn = "CreateBitfield" /\ unit.done
  /\ unit.cf = "CreateDeviceFPConfig" /\ unit.config = 3
  /\ unit.result = <<[s |-> Chars("CL_FP_DENORM")], [s |-> Chars("CL_FP_INF_NAN")]>>

\* the driver of a GetValue call: one platform with one device, and the
\* fetched attribute answering, failing at the size query, failing at the
\* fill query, or reporting size 0
FetchWorlds(fn, obj, attr) ==
  {[platforms |-> <<[devices |-> <<BaseVersion>>]>>, formats |-> 0, fault |-> f,
    memory |-> Unlimited] :
     f \in {NoFault} \cup {Fault(fn, obj, attr, k) : k \in FailKinds \cup {"empty"}}}

\* the rows of a property table as GetValue calls on an object
FetchCalls(fn, obj, table) ==
  UNION {{[world |-> w,
           unit |-> [fn |-> "GetValue", site |-> fn, obj |-> obj, info |-> table[i].info,
                     cf |-> table[i].cf, done |-> FALSE, log |-> <<>>, result |-> <<>>]] :
            w \in FetchWorlds(fn, obj, table[i].info)} : i \in 1..Len(table)}

\* GetValue is called with the rows of the platform table and of the
\* device tables
GetValueCalls ==
  FetchCalls("clGetPlatformInfo", <<1>>, PlatformInfos)
  \cup FetchCalls("clGetDeviceInfo", <<1, 1>>, PropertiesToFetch(BaseVersion))

\* GetValue (getInfoFunction, clObject, info, pool, createFunction)
Call_GetValue ==
  /\ unit.fn = "GetValue"
  /\ ~unit.done
  /\ \E v \in {GetValue(Fresh, world, unit.site, unit.obj, unit.info, unit.cf)} :
       unit' = [unit EXCEPT !.done = TRUE, !.log = v.m.log, !.result = v.result]
  /\ UNCHANGED <<lib, decoders, program>>

\* the size query: buffer size 0 and a null buffer
SizeQuery(u) == <<u.site, u.obj, u.info, "size", 0>>

\* the fill query with a buffer of n bytes
FillQuery(u, n) == <<u.site, u.obj, u.info, "fill", n>>

\* the number of bytes the driver holds for the attribute
ReportedSize(w, u) == StrLen(AttributeData(w, u.site, u.obj, u.info))

\* C17: every attribute fetch issues the size query first; if that query
\* fails or reports size 0 nothing else happens and the result is null;
\* otherwise exactly one fill query with a buffer of the reported size
\* follows, and the decoder is called exactly once, with that buffer and
\* size, exactly when the fill query succeeds.
C17_QueryProtocol ==
  (unit.fn = "GetValue" /\ unit.done) =>
    /\ Len(unit.log) >= 1
    /\ unit.log[1] = SizeQuery(unit)
    /\ (world.fault.kind \in {"size", "empty"}) =>
         (Len(unit.log) = 1 /\ unit.result = <<>>)
    /\ (world.fault.kind = "fill") =>
         /\ unit.log = <<SizeQuery(unit), FillQuery(unit, ReportedSize(world, unit))>>
         /\ unit.result = <<>>
    /\ (world.fault = NoFault) =>
         unit.log = <<SizeQuery(unit), FillQuery(unit, ReportedSize(world, unit)),
                      <<"createFunction", unit.cf,
                        AttributeData(world, unit.site, unit.obj, unit.info), "call",
                        ReportedSize(world, unit)>> >>

\* C17 witness: the driver reported size 0 for CL_DEVICE_EXTENSIONS and the
\* fetch ended after the size query with a null result
C17_EmptyAttribute ==
  /\ unit.fn = "GetValue" /\ unit.done
  /\ world.fault = Fault("clGetDeviceInfo", <<1, 1>>, "CL_DEVICE_EXTENSIONS", "empty")
  /\ unit.log = <<SizeQuery(unit)>>
  /\ unit.result = <<>>

\* the tables GetProperties is called with on a device node: none, the
\* baseline table and the table of each version
DeviceTables ==
  <<infos_CL_2_0_Ext, infos_CL_shared, infos_CL_1_0, infos_CL_1_1, infos_CL_1_2, infos_CL_2_0>>

\* a device with every attribute answered
OneDevice ==
  [platforms |-> <<[devices |-> <<BaseVersion>>]>>, formats |-> 0, fault |-> NoFault,
   memory |-> Unlimited]

\* two calls in a row on a newly allocated node, each with a table
PropertyCalls ==
  {[fn |-> "GetProperties", tables |-> <<i, j>>, calls |-> 0,
    pool |-> AllocateNode(Fresh).m.pool, heap |-> AllocateNode(Fresh).m.heap,
    node |-> AllocateNode(Fresh).result, before |-> <<>>] :
     i \in 1..Len(DeviceTables), j \in 1..Len(DeviceTables)}

\* GetProperties (pool, node, clGetDeviceInfo, id, table), for the next table
Call_GetProperties ==
  /\ unit.fn = "GetProperties"
  /\ unit.calls < Len(unit.tables)
  /\ \E g \in {GetProperties(Machine(unit.pool, unit.heap, {}, Unlimited), world,
                             unit.node, "clGetDeviceInfo", <<1, 1>>,
                             DeviceTables[unit.tables[unit.calls + 1]])} :
       unit' = [unit EXCEPT !.calls = @ + 1, !.pool = g.m.pool, !.heap = g.m.heap,
                            !.before = unit.heap[unit.node].firstProperty]
  /\ UNCHANGED <<lib, decoders, program>>

\* C18: a GetProperties call on a node leaves every property the node already
\* has, its position and its value list unchanged and appends one property
\* per table row after them; after calls with T1 and then T2 the list is T1's
\* entries followed by T2's, of length |T1| + |T2|.
C18_AppendsAfterTail ==
  (unit.fn = "GetProperties" /\ unit.calls > 0) =>
    /\ Len(unit.heap[unit.node].firstProperty) =
         Len(unit.before) + Len(DeviceTables[unit.tables[unit.calls]])
    /\ SubSeq(unit.heap[unit.node].firstProperty, 1, Len(unit.before)) = unit.before
    /\ (unit.calls = 2) =>
         PropertyNames(unit.heap[unit.node]) =
           Names(DeviceTables[unit.tables[1]]) \o Names(DeviceTables[unit.tables[2]])
    /\ (unit.calls = 1) =>
         PropertyNames(unit.heap[unit.node]) = Names(DeviceTables[unit.tables[1]])

\* C18 witness: the baseline table and then the 1.2 table were fetched into
\* one node, which holds the properties of both
C18_SharedThenVersion ==
  /\ unit.fn = "GetProperties" /\ unit.calls = 2
  /\ DeviceTables[unit.tables[1]] = infos_CL_shared
  /\ DeviceTables[unit.tables[2]] = infos_CL_1_2
  /\ Len(unit.before) = Len(infos_CL_shared)
  /\ Len(unit.heap[unit.node].firstProperty) = Len(infos_CL_shared) + Len(infos_CL_1_2)

RECURSIVE Decimal(_)
\* the decimal digits of a natural number
Decimal(n) == IF n < 10 THEN <<48 + n>> ELSE Append(Decimal(n \div 10), 48 + (n % 10))

\* n spaces
Spaces(n) == [k \in 1..n |-> SPACE]

\* "OpenCL <major>.<minor> x" with a superfluous spaces before the number
\* and b after it
SpacedVersionString(v, a, b) ==
  <<79, 112, 101, 110, 67, 76, SPACE>> \o Spaces(a) \o Decimal(v.major) \o <<DOT>>
    \o Decimal(v.minor) \o <<SPACE>> \o Spaces(b) \o <<120, NUL>>

\* the version strings ParseVersion is called with: one- and two-digit
\* numbers and up to MaxSpaces superfluous spaces
VersionCalls ==
  {[fn |-> "ParseVersion", s |-> SpacedVersionString(Version(x, y), a, b),
    version |-> Version(x, y), before |-> a, after |-> b,
    done |-> FALSE, aborted |-> FALSE, result |-> Version(0, 0)] :
     x \in {1, MaxMajor, 10 + MaxMajor}, y \in {0, MaxMinor, 10 + MaxMinor},
     a \in 0..MaxSpaces, b \in {0, 1, MaxSpaces}}

\* ParseVersion (s): when a field with the spaces before it does not fit its
\* array, the assert aborts the program, or (NDEBUG) the memcpy leaves the
\* array without its NUL or writes past it and atoi returns any number
Call_ParseVersion ==
  /\ unit.fn = "ParseVersion"
  /\ ~unit.done
  /\ IF FieldsFit(unit.s)
       THEN unit' = [unit EXCEPT !.done = TRUE, !.result = ParseVersion(unit.s)]
       ELSE \/ unit' = [unit EXCEPT !.done = TRUE, !.aborted = TRUE]
            \/ \E v \in VersionUniverse :
                 unit' = [unit EXCEPT !.done = TRUE, !.result = v]
  /\ UNCHANGED <<lib, decoders, program>>

\* C20: for every version string "<name> <major>.<minor> <vendor-text>",
\* with or without superfluous spaces between the name and the number or
\* after the number, ParseVersion returns exactly (major, minor).
C20_ParsesSpacedVersion ==
  (unit.fn = "ParseVersion" /\ unit.done) =>
    (~unit.aborted /\ unit.result = unit.version)

-----------------------------------------------------------------------------
(* JsonPrinter.  The output stream is the sequence of the pieces written   *)
(* to it: a literal of the program, or the characters of a value           *)

Lit(text) == [lit |-> text, bytes |-> <<>>]

Bytes(bytes) == [lit |-> "", bytes |-> bytes]

\* a property the printer never takes for single-valued
SingleValue_Never(p) == FALSE

\* bool singleValue = (p->value && p->value->next == nullptr)
SingleValue(p) == Len(p.value) = 1

\* the switch (p->type) of the value loop: the member of the union the type
\* names, written as operator<< writes it
JsonValue(type, v) ==
  CASE type = "Bool" -> <<Lit(IF v.b THEN "true" ELSE "false")>>
    [] type = "Int64" -> <<Bytes(Decimal(LittleEndian(v.i, 1, SizeofInt64)))>>
    [] type = "String" -> <<Lit("\""), Bytes(v.s), Lit("\"")>>

RECURSIVE JsonValues(_, _, _)
\* for (auto v = p->value; v; v = v->next) { ...; if (v->next) s << ","; }
JsonValues(type, values, k) ==
  IF k > Len(values) THEN <<>>
  ELSE (JsonValue(type, values[k]) \o (IF k < Len(values) THEN <<Lit(",")>> ELSE <<>>))
       \o JsonValues(type, values, k + 1)

\* void JsonPrinter::OnProperty (s, p)
JsonOnProperty(p) ==
  (<<Lit("\""), Lit(p.name), Lit(IF SingleValue(p) THEN "\" = " ELSE "\" = [")>>
     \o JsonValues(p.type, p.value, 1))
  \o (IF SingleValue(p) THEN <<>> ELSE <<Lit("]")>>)

RECURSIVE JsonProperties(_, _)
\* for (auto p = node->firstProperty; p; p = p->next) { OnProperty; "," }
JsonProperties(properties, k) ==
  IF k > Len(properties) THEN <<>>
  ELSE (JsonOnProperty(properties[k])
        \o (IF k < Len(properties) THEN <<Lit(",")>> ELSE <<>>))
       \o JsonProperties(properties, k + 1)

RECURSIVE JsonOnNode(_, _)
RECURSIVE JsonChildren(_, _)
\* for (auto n = node->firstChild; n; n = n->next) { OnNode; "," }
JsonChildren(h, n) ==
  IF n = NULL THEN <<>>
  ELSE (JsonOnNode(h, n) \o (IF h[n].next # NULL THEN <<Lit(",")>> ELSE <<>>))
       \o JsonChildren(h, h[n].next)

\* void JsonPrinter::OnNode (s, node)
JsonOnNode(h, node) ==
  (((<<Lit("{ \""), Lit(h[node].name), Lit("\" : {"), Lit("\"Properties\" : ")>>
     \o (IF h[node].firstProperty # <<>>
           THEN JsonProperties(h[node].firstProperty, 1) ELSE <<Lit("{}")>>))
    \o <<Lit(", \"Children\" : ")>>)
   \o (IF h[node].firstChild # NULL
         THEN JsonChildren(h, h[node].firstChild) ELSE <<Lit("{}")>>))
  \o <<Lit("}")>>

\* the drivers whose trees are printed: one device, one device with image
\* formats, one device that reports no extensions, two platforms
PrintedWorlds ==
  {OneDevice, [OneDevice EXCEPT !.formats = 1],
   [OneDevice EXCEPT !.fault =
      Fault("clGetDeviceInfo", <<1, 1>>, "CL_DEVICE_EXTENSIONS", "empty")],
   [OneDevice EXCEPT !.platforms = FaultShape]}

\* JsonPrinter ().Write is called with the root of a gathered tree
JsonCalls ==
  {With([g \in {GatherOpenCLInfo(Fresh, w)} |->
     [fn |-> "JsonPrinter", heap |-> g.m.heap, root |-> g.result, done |-> FALSE,
      output |-> <<>>]]) : w \in PrintedWorlds}

\* JsonPrinter ().Write (std::cout, root)
Call_JsonWrite ==
  /\ unit.fn = "JsonPrinter"
  /\ ~unit.done
  /\ unit' = [unit EXCEPT !.done = TRUE, !.output = JsonOnNode(unit.heap, unit.root)]
  /\ UNCHANGED <<lib, decoders, program>>

\* the piece sequence seg occurs in the output at position i
OccursAt(seg, output, i) ==
  /\ i + Len(seg) - 1 <= Len(output)
  /\ SubSeq(output, i, i + Len(seg) - 1) = seg

Occurrences(seg, output) == {i \in 1..Len(output) : OccursAt(seg, output, i)}

RECURSIVE CommaSeparated(_, _)
\* the values of a list, each as the printer writes a scalar, with a comma
\* between neighbours
CommaSeparated(type, values) ==
  IF values = <<>> THEN <<>>
  ELSE IF Len(values) = 1 THEN JsonValue(type, values[1])
  ELSE (JsonValue(type, Head(values)) \o <<Lit(",")>>) \o CommaSeparated(type, Tail(values))

\* the properties of the tree of a call, each as <<node, position>>
PrintedProperties(u) ==
  UNION {{<<n, k>> : k \in 1..Len(u.heap[n].firstProperty)} : n \in TreeNodes(u.heap, u.root)}

PropertyAt(u, nk) == u.heap[nk[1]].firstProperty[nk[2]]

\* C15: JsonPrinter writes a property with exactly one value as a bare
\* scalar without brackets, a property with two or more values as a bracketed
\* comma-separated array with one element per value in value order, "{}" for
\* the Properties of a node without properties and "{}" for the Children of
\* a node without children.
C15_JsonShapes ==
  (unit.fn = "JsonPrinter" /\ unit.done) =>
    /\ \A nk \in PrintedProperties(unit) :
         /\ (Len(PropertyAt(unit, nk).value) = 1) =>
              Occurrences(<<Lit("\""), Lit(PropertyAt(unit, nk).name), Lit("\" = ")>>
                            \o JsonValue(PropertyAt(unit, nk).type,
                                         PropertyAt(unit, nk).value[1]),
                          unit.output) # {}
         /\ (Len(PropertyAt(unit, nk).value) >= 2) =>
              Occurrences((<<Lit("\""), Lit(PropertyAt(unit, nk).name), Lit("\" = [")>>
                             \o CommaSeparated(PropertyAt(unit, nk).type,
                                               PropertyAt(unit, nk).value))
                            \o <<Lit("]")>>,
                          unit.output) # {}
    /\ Cardinality(Occurrences(<<Lit("\" = ")>>, unit.output)) =
         Cardinality({nk \in PrintedProperties(unit) : Len(PropertyAt(unit, nk).value) = 1})
    /\ Cardinality(Occurrences(<<Lit("]")>>, unit.output)) =
         Cardinality({nk \in PrintedProperties(unit) : Len(PropertyAt(unit, nk).value) # 1})
    /\ Cardinality(Occurrences(<<Lit("\"Properties\" : "), Lit("{}")>>, unit.output)) =
         Cardinality({n \in TreeNodes(unit.heap, unit.root) :
                        unit.heap[n].firstProperty = <<>>})
    /\ Cardinality(Occurrences(<<Lit(", \"Children\" : "), Lit("{}"), Lit("}")>>,
                               unit.output)) =
         Cardinality({n \in TreeNodes(unit.heap, unit.root) :
                        unit.heap[n].firstChild = NULL})

\* C15 witness: a printed tree with a single-valued property, a property of
\* three values, a node without properties and a node without children
C15_PrintedDevice ==
  /\ unit.fn = "JsonPrinter" /\ unit.done
  /\ \E nk \in PrintedProperties(unit) : Len(PropertyAt(unit, nk).value) = 1
  /\ \E nk \in PrintedProperties(unit) : Len(PropertyAt(unit, nk).value) = 3
  /\ \E n \in TreeNodes(unit.heap, unit.root) : unit.heap[n].firstProperty = <<>>
  /\ \E n \in TreeNodes(unit.heap, unit.root) : unit.heap[n].firstChild = NULL
  /\ Occurrences(<<Lit("\" = [")>>, unit.output) # {}

\* the versions that are compared: every pair of numbers within the bounds
ComparedVersions == {Version(x, y) : x \in 0..MaxMajor, y \in 0..MaxMinor}

\* three versions and, once compared, what each operator returned
CompareCalls ==
  {[fn |-> "Version", a |-> a, b |-> b, c |-> c, done |-> FALSE,
    eq |-> FALSE, ne |-> FALSE, lt |-> FALSE, le |-> FALSE, ge |-> FALSE, gt |-> FALSE,
    ltbc |-> FALSE, ltac |-> FALSE] :
     a \in ComparedVersions, b \in ComparedVersions, c \in ComparedVersions}

\* a == b, a != b, a < b, a <= b, a >= b, a > b, b < c and a < c
Call_VersionCompare ==
  /\ unit.fn = "Version"
  /\ ~unit.done
  /\ unit' = [unit EXCEPT !.done = TRUE,
                          !.eq = VersionEq(unit.a, unit.b),
                          !.ne = VersionNe(unit.a, unit.b),
                          !.lt = VersionLt(unit.a, unit.b),
                          !.le = VersionLe(unit.a, unit.b),
                          !.ge = VersionGe(unit.a, unit.b),
                          !.gt = VersionGt(unit.a, unit.b),
                          !.ltbc = VersionLt(unit.b, unit.c),
                          !.ltac = VersionLt(unit.a, unit.c)]
  /\ UNCHANGED <<lib, decoders, program>>

\* a comes before b in the lexicographic order on (major, minor)
LexBefore(a, b) == a.major < b.major \/ (a.major = b.major /\ a.minor < b.minor)

\* the number of the listed conditions that hold
HowMany(conditions) == Cardinality({k \in 1..Len(conditions) : conditions[k]})

\* C21: the comparison operators of Version are the lexicographic order on
\* (major, minor) and agree with each other: exactly one of a<b, a==b, a>b
\* holds; a<=b iff (a<b or a==b); a>=b iff not (a<b); a!=b iff not (a==b);
\* < is transitive.
C21_TotalOrder ==
  (unit.fn = "Version" /\ unit.done) =>
    /\ unit.lt = LexBefore(unit.a, unit.b)
    /\ unit.gt = LexBefore(unit.b, unit.a)
    /\ unit.eq = (unit.a = unit.b)
    /\ HowMany(<<unit.lt, unit.eq, unit.gt>>) = 1
    /\ unit.le = (unit.lt \/ unit.eq)
    /\ unit.ge = ~unit.lt
    /\ unit.ne = ~unit.eq
    /\ (unit.lt /\ unit.ltbc) => unit.ltac

\* C21 witness: (1,2) has been compared with (2,0) and (2,0) with itself
C21_Compared ==
  /\ unit.fn = "Version" /\ unit.done
  /\ unit.a = Version(1, 2) /\ unit.b = Version(2, 0) /\ unit.c = Version(2, 0)
  /\ unit.lt /\ ~unit.ge /\ ~unit.ltbc

\* the decoders of a scalar integer with the width of the type they read
IntegerDecoders ==
  {[cf |-> "CreateUInt", width |-> SizeofUInt], [cf |-> "CreateULong", width |-> SizeofULong],
   [cf |-> "CreateSizeT", width |-> SizeofSizeT]}

\* the buffers handed to a decoder of a `width`-byte integer: every choice
\* of a low, a middle and a high byte value for the lowest, the two middle
\* and the highest byte, the other bytes being 0
IntegerBuffers(width) ==
  {[k \in 1..width |->
      IF k = 1 THEN b[1] ELSE IF k = width \div 2 THEN b[2]
      ELSE IF k = width \div 2 + 1 THEN b[3] ELSE IF k = width THEN b[4] ELSE 0] :
     b \in [1..4 -> {0, 1, 127, 128, 255}]}

IntegerCalls ==
  UNION {{[fn |-> "CreateInteger", cf |-> d.cf, width |-> d.width, buffer |-> b,
           done |-> FALSE, result |-> <<>>] : b \in IntegerBuffers(d.width)} :
           d \in IntegerDecoders}

\* CreateUInt / CreateULong / CreateSizeT (pool, buffer, size)
Call_CreateInteger ==
  /\ unit.fn = "CreateInteger"
  /\ ~unit.done
  /\ unit' = [unit EXCEPT !.done = TRUE,
                          !.result = Create(unit.cf, Fresh, unit.buffer,
                                            Len(unit.buffer)).result]
  /\ UNCHANGED <<lib, decoders, program>>

\* the 64-bit two's-complement integer that has the value of the signed
\* `width`-byte integer in the bytes b
SignExtended(b, width) ==
  [k \in 1..SizeofInt64 |-> IF k <= width THEN b[k] ELSE IF b[width] >= 128 THEN 255 ELSE 0]

\* the 64-bit two's-complement integer whose low bytes are b and whose other
\* bytes are 0: for a source narrower than 64 bits, the non-negative integer
\* with the value of the unsigned integer in b
ZeroExtended(b, width) ==
  [k \in 1..SizeofInt64 |-> IF k <= width THEN b[k] ELSE 0]

\* C22 as stated: each scalar integer decoder produces exactly one value,
\* the source integer sign-extended to 64 bits.
C22_SignExtends ==
  (unit.fn = "CreateInteger" /\ unit.done) =>
    unit.result = <<[i |-> SignExtended(unit.buffer, unit.width)]>>

\* C22: each scalar integer decoder produces exactly one value, the source
\* integer read as unsigned and converted to 64 bits: its bytes followed by
\* zero bytes, whatever its top bit.
C22_ZeroExtends ==
  (unit.fn = "CreateInteger" /\ unit.done) =>
    /\ Len(unit.result) = 1
    /\ unit.result[1] = [i |-> ZeroExtended(unit.buffer, unit.width)]

\* C22 witness: the cl_uint 0xFFFFFFFF has been decoded to 4294967295
C22_AllOnes ==
  /\ unit.fn = "CreateInteger" /\ unit.done
  /\ unit.cf = "CreateUInt" /\ unit.buffer = <<255, 255, 255, 255>>
  /\ unit.result = <<[i |-> <<255, 255, 255, 255, 0, 0, 0, 0>>]>>

-----------------------------------------------------------------------------
(* XmlPrinter                                                              *)

\* the switch (p->type) that names the type
XmlTypeName(type) ==
  CASE type = "Bool" -> "bool" [] type = "Int64" -> "int64" [] type = "String" -> "string"

\* the switch (p->type) of the value loop
XmlValue(type, v) ==
  CASE type = "Bool" -> Lit(IF v.b THEN "true" ELSE "false")
    [] type = "Int64" -> Bytes(Decimal(LittleEndian(v.i, 1, SizeofInt64)))
    [] type = "String" -> Bytes(v.s)

RECURSIVE XmlValues(_, _, _)
\* for (auto v = p->value; v; v = v->next) { "<Value>" ... "</Value>" }
XmlValues(type, values, k) ==
  IF k > Len(values) THEN <<>>
  ELSE <<Lit("<Value>"), XmlValue(type, values[k]), Lit("</Value>")>>
       \o XmlValues(type, values, k + 1)

\* void XmlPrinter::OnProperty (s, p)
XmlOnProperty(p) ==
  (<<Lit("<Property Name=\""), Lit(p.name), Lit("\" Type=\""), Lit(XmlTypeName(p.type)),
     Lit("\">")>>
     \o XmlValues(p.type, p.value, 1))
  \o <<Lit("</Property>")>>

RECURSIVE XmlProperties(_, _)
\* for (auto p = node->firstProperty; p; p = p->next) OnProperty (s, p);
XmlProperties(properties, k) ==
  IF k > Len(properties) THEN <<>>
  ELSE XmlOnProperty(properties[k]) \o XmlProperties(properties, k + 1)

\* a printer that writes the children of a node before its properties
XmlBody_ChildrenFirst(properties, children) == children \o properties

\* the two loops of OnNode, one after the other
XmlBody(properties, children) == properties \o children

RECURSIVE XmlOnNode(_, _)
RECURSIVE XmlChildren(_, _)
\* for (auto n = node->firstChild; n; n = n->next) OnNode (s, n);
XmlChildren(h, n) ==
  IF n = NULL THEN <<>> ELSE XmlOnNode(h, n) \o XmlChildren(h, h[n].next)

\* void XmlPrinter::OnNode (s, node)
XmlOnNode(h, node) ==
  (((<<Lit("<"), Lit(h[node].name)>>
     \o (IF h[node].kind # ""
           THEN <<Lit(" Kind=\""), Lit(h[node].kind), Lit("\"")>> ELSE <<>>))
    \o <<Lit(">")>>)
   \o XmlBody(XmlProperties(h[node].firstProperty, 1),
              XmlChildren(h, h[node].firstChild)))
  \o <<Lit("</"), Lit(h[node].name), Lit(">")>>

\* XmlPrinter ().Write is called with the root of a gathered tree
XmlCalls ==
  {With([g \in {GatherOpenCLInfo(Fresh, w)} |->
     [fn |-> "XmlPrinter", heap |-> g.m.heap, root |-> g.result, done |-> FALSE,
      output |-> <<>>]]) : w \in PrintedWorlds}

\* XmlPrinter ().Write (std::cout, root)
Call_XmlWrite ==
  /\ unit.fn = "XmlPrinter"
  /\ ~unit.done
  /\ unit' = [unit EXCEPT !.done = TRUE, !.output = XmlOnNode(unit.heap, unit.root)]
  /\ UNCHANGED <<lib, decoders, program>>

RECURSIVE Flatten(_)
\* the entries of a sequence of sequences, one after the other
Flatten(seqs) == IF seqs = <<>> THEN <<>> ELSE Head(seqs) \o Flatten(Tail(seqs))

\* a Property block: the opening tag, one Value element per value in value
\* order, the closing tag
PropertyBlock(p) ==
  (<<Lit("<Property Name=\""), Lit(p.name), Lit("\" Type=\""), Lit(XmlTypeName(p.type)),
     Lit("\">")>>
     \o Flatten([k \in 1..Len(p.value) |->
                   <<Lit("<Value>"), XmlValue(p.type, p.value[k]), Lit("</Value>")>>]))
  \o <<Lit("</Property>")>>

\* the opening tag of a node, with the Kind attribute exactly when kind is set
OpeningTag(node) ==
  IF node.kind = "" THEN <<Lit("<"), Lit(node.name), Lit(">")>>
  ELSE <<Lit("<"), Lit(node.name), Lit(" Kind=\""), Lit(node.kind), Lit("\""), Lit(">")>>

RECURSIVE Element(_, _)
\* the element of a node: its opening tag, the blocks of its properties in
\* list order, the elements of its children in sibling order, its closing tag
Element(h, n) ==
  ((OpeningTag(h[n])
    \o Flatten([k \in 1..Len(h[n].firstProperty) |-> PropertyBlock(h[n].firstProperty[k])]))
   \o Flatten([k \in 1..Len(Children(h, n)) |-> Element(h, Children(h, n)[k])]))
  \o <<Lit("</"), Lit(h[n].name), Lit(">")>>

\* C23: XmlPrinter writes, for every node, its opening tag (with a Kind
\* attribute exactly when kind is set), then its properties in list order,
\* then its children in sibling order, then the matching closing tag, each
\* Property block holding one Value element per value; so the output is the
\* properly nested element of the root, with as many closing as opening tags.
C23_XmlElements ==
  (unit.fn = "XmlPrinter" /\ unit.done) =>
    /\ unit.output = Element(unit.heap, unit.root)
    /\ Cardinality(Occurrences(<<Lit("<")>>, unit.output)) =
         Cardinality(TreeNodes(unit.heap, unit.root))
    /\ Cardinality(Occurrences(<<Lit("</")>>, unit.output)) =
         Cardinality(TreeNodes(unit.heap, unit.root))
    /\ Cardinality(Occurrences(<<Lit(" Kind=\"")>>, unit.output)) =
         Cardinality({n \in TreeNodes(unit.heap, unit.root) : unit.heap[n].kind # ""})
    /\ Cardinality(Occurrences(<<Lit("<Value>")>>, unit.output)) =
         Cardinality(Occurrences(<<Lit("</Value>")>>, unit.output))

\* C23 witness: a printed tree with a node that has a kind, a node with
\* properties and children, and a property of three values
C23_PrintedFormats ==
  /\ unit.fn = "XmlPrinter" /\ unit.done
  /\ \E n \in TreeNodes(unit.heap, unit.root) : unit.heap[n].kind # ""
  /\ \E n \in TreeNodes(unit.heap, unit.root) :
       unit.heap[n].firstProperty # <<>> /\ unit.heap[n].firstChild # NULL
  /\ \E nk \in PrintedProperties(unit) : Len(PropertyAt(unit, nk).value) = 3
  /\ Occurrences(<<Lit("</Property>"), Lit("<")>>, unit.output) # {}

-----------------------------------------------------------------------------
(* Image formats                                                           *)

\* the entries of a sequence
Range(s) == {s[k] : k \in 1..Len(s)}

\* the names of the dimensionalities queried for a device version
Dimensionalities(v) ==
  IF v.major > 1 \/ (v.major = 1 /\ v.minor >= 2)
    THEN <<"Image1D", "Image2D", "Image3D", "Image1DBuffer", "Image1DArray", "Image2DArray">>
    ELSE <<"Image1D", "Image2D", "Image3D">>

\* the formats the driver of the world lists for a dimensionality
FormatsOf(n) ==
  SupportedFormats(world, (CHOOSE t \in (Range(types_CL_1_0) \cup Range(types_CL_1_2)) : t.n = n).type)

\* the dimensionalities of a device version with at least one format
Listed(v) == SelectSeq(Dimensionalities(v), LAMBDA n : FormatsOf(n) # <<>>)

\* the shape of the ImageFormats subtree of one Device node
ImageFormatsShape(dn, v) ==
  /\ Len(Children(heap, dn)) = 1
  /\ heap[heap[dn].firstChild].name = "ImageFormats"
  /\ heap[heap[dn].firstChild].firstProperty = <<>>
  /\ LET types == Children(heap, heap[dn].firstChild)
     IN  /\ [k \in 1..Len(types) |-> heap[types[k]].kind] = Listed(v)
         /\ \A k \in 1..Len(types) :
              LET formats == Children(heap, types[k])
                  driver == FormatsOf(heap[types[k]].kind)
              IN  /\ Len(formats) = Len(driver)
                  /\ Len(formats) >= 1
                  /\ \A f \in 1..Len(formats) :
                       /\ heap[formats[f]].name = "Format"
                       /\ heap[formats[f]].firstChild = NULL
                       /\ PropertyNames(heap[formats[f]]) = <<"ChannelOrder", "ChannelDataType">>
                       /\ heap[formats[f]].firstProperty[1].type = "String"
                       /\ heap[formats[f]].firstProperty[2].type = "String"
                       /\ heap[formats[f]].firstProperty[1].value =
                            StringValue(Chars(ChannelOrderToString(driver[f].image_channel_order)))
                       /\ heap[formats[f]].firstProperty[2].value =
                            StringValue(Chars(ChannelDataTypeToString(
                                                driver[f].image_channel_data_type)))
                       /\ driver[f].image_channel_order = "CL_DEPTH" =>
                            heap[formats[f]].firstProperty[1].value =
                              StringValue(Chars("Unknown channel order"))
                       /\ driver[f].image_channel_data_type = "CL_UNORM_INT24" =>
                            heap[formats[f]].firstProperty[2].value =
                              StringValue(Chars("Unknown channel data type"))

\* C24: on a driver that answers every call, every Device node has exactly
\* one child, "ImageFormats"; its children are, in query order, the
\* dimensionalities Image1D, Image2D, Image3D (and Image1DBuffer,
\* Image1DArray, Image2DArray only for a device version >= (1,2)) for which
\* the driver lists n >= 1 formats, each with n "Format" children in driver
\* order that carry the single-valued string properties ChannelOrder and
\* ChannelDataType ("Unknown ..." for a code without a name); a
\* dimensionality with 0 formats contributes no child.
C24_ImageFormats ==
  GatheredClean =>
    \A p \in 1..Len(PlatformNodes) : \A d \in 1..Len(DeviceNodes(p)) :
      ImageFormatsShape(DeviceNodes(p)[d], VersionOf(p, d))

\* C24 witness: a gathered device of version >= (1,2) whose driver lists no
\* format for one dimensionality and two formats, the second with codes
\* that have no name, for a dimensionality of the newer versions
C24_MixedFormats ==
  /\ GatheredClean
  /\ Len(DeviceNodes(1)) = 1
  /\ VersionGe(VersionOf(1, 1), Version(1, 2))
  /\ \E n \in Range(Dimensionalities(VersionOf(1, 1))) : FormatsOf(n) = <<>>
  /\ \E t \in Range(Children(heap, heap[DeviceNodes(1)[1]].firstChild)) :
       /\ heap[t].kind \in {"Image1DBuffer", "Image1DArray", "Image2DArray"}
       /\ Len(Children(heap, t)) = 2
       /\ heap[Children(heap, t)[2]].firstProperty[1].value =
            StringValue(Chars("Unknown channel order"))

\* C24 witness of the last clause: a driver without any image format leaves
\* an ImageFormats node without children
C24_NoFormats ==
  /\ GatheredClean
  /\ Len(DeviceNodes(1)) = 1
  /\ heap[heap[DeviceNodes(1)[1]].firstChild].name = "ImageFormats"
  /\ heap[heap[DeviceNodes(1)[1]].firstChild].firstChild = NULL

-----------------------------------------------------------------------------
(* The standalone diagnostic program (clDiag.cpp): the attribute tables of  *)
(* its GatherDeviceInfo, by attribute identifier, in declaration order      *)

clDiag_infos_CL_1_0 ==
  <<
    "CL_DEVICE_ADDRESS_BITS", "CL_DEVICE_AVAILABLE",
    "CL_DEVICE_COMPILER_AVAILABLE", "CL_DEVICE_DOUBLE_FP_CONFIG",
    "CL_DEVICE_ENDIAN_LITTLE", "CL_DEVICE_ERROR_CORRECTION_SUPPORT",
    "CL_DEVICE_EXECUTION_CAPABILITIES", "CL_DEVICE_EXTENSIONS",
    "CL_DEVICE_GLOBAL_MEM_CACHE_SIZE", "CL_DEVICE_GLOBAL_MEM_CACHE_TYPE",
    "CL_DEVICE_GLOBAL_MEM_CACHELINE_SIZE", "CL_DEVICE_GLOBAL_MEM_SIZE",
    "CL_DEVICE_IMAGE2D_MAX_HEIGHT", "CL_DEVICE_IMAGE2D_MAX_WIDTH",
    "CL_DEVICE_IMAGE3D_MAX_DEPTH", "CL_DEVICE_IMAGE3D_MAX_HEIGHT",
    "CL_DEVICE_IMAGE3D_MAX_WIDTH", "CL_DEVICE_IMAGE_SUPPORT",
    "CL_DEVICE_LOCAL_MEM_SIZE", "CL_DEVICE_LOCAL_MEM_TYPE",
    "CL_DEVICE_MAX_CLOCK_FREQUENCY", "CL_DEVICE_MAX_COMPUTE_UNITS",
    "CL_DEVICE_MAX_CONSTANT_ARGS", "CL_DEVICE_MAX_CONSTANT_BUFFER_SIZE",
    "CL_DEVICE_MAX_MEM_ALLOC_SIZE", "CL_DEVICE_MAX_PARAMETER_SIZE",
    "CL_DEVICE_MAX_READ_IMAGE_ARGS", "CL_DEVICE_MAX_SAMPLERS",
    "CL_DEVICE_MAX_WORK_GROUP_SIZE", "CL_DEVICE_MAX_WORK_ITEM_DIMENSIONS",
    "CL_DEVICE_MAX_WORK_ITEM_SIZES", "CL_DEVICE_MAX_WRITE_IMAGE_ARGS",
    "CL_DEVICE_MEM_BASE_ADDR_ALIGN", "CL_DEVICE_MIN_DATA_TYPE_ALIGN_SIZE",
    "CL_DEVICE_NAME", "CL_DEVICE_OPENCL_C_VERSION",
    "CL_DEVICE_PREFERRED_VECTOR_WIDTH_CHAR", "CL_DEVICE_PREFERRED_VECTOR_WIDTH_SHORT",
    "CL_DEVICE_PREFERRED_VECTOR_WIDTH_INT", "CL_DEVICE_PREFERRED_VECTOR_WIDTH_LONG",
    "CL_DEVICE_PREFERRED_VECTOR_WIDTH_FLOAT", "CL_DEVICE_PREFERRED_VECTOR_WIDTH_DOUBLE",
    "CL_DEVICE_PREFERRED_VECTOR_WIDTH_HALF", "CL_DEVICE_PROFILE",
    "CL_DEVICE_PROFILING_TIMER_RESOLUTION", "CL_DEVICE_SINGLE_FP_CONFIG",
    "CL_DEVICE_TYPE", "CL_DEVICE_VENDOR",
    "CL_DEVICE_VENDOR_ID", "CL_DEVICE_VERSION",
    "CL_DRIVER_VERSION"
  >>

clDiag_infos_CL_1_1 ==
  <<
    "CL_DEVICE_ADDRESS_BITS", "CL_DEVICE_AVAILABLE",
    "CL_DEVICE_COMPILER_AVAILABLE", "CL_DEVICE_DOUBLE_FP_CONFIG",
    "CL_DEVICE_ENDIAN_LITTLE", "CL_DEVICE_ERROR_CORRECTION_SUPPORT",
    "CL_DEVICE_EXECUTION_CAPABILITIES", "CL_DEVICE_EXTENSIONS",
    "CL_DEVICE_GLOBAL_MEM_CACHE_SIZE", "CL_DEVICE_GLOBAL_MEM_CACHE_TYPE",
    "CL_DEVICE_GLOBAL_MEM_CACHELINE_SIZE", "CL_DEVICE_GLOBAL_MEM_SIZE",
    "CL_DEVICE_HOST_UNIFIED_MEMORY", "CL_DEVICE_IMAGE2D_MAX_HEIGHT",
    "CL_DEVICE_IMAGE2D_MAX_WIDTH", "CL_DEVICE_IMAGE3D_MAX_DEPTH",
    "CL_DEVICE_IMAGE3D_MAX_HEIGHT", "CL_DEVICE_IMAGE3D_MAX_WIDTH",
    "CL_DEVICE_IMAGE_SUPPORT", "CL_DEVICE_LOCAL_MEM_SIZE",
    "CL_DEVICE_LOCAL_MEM_TYPE", "CL_DEVICE_MAX_CLOCK_FREQUENCY",
    "CL_DEVICE_MAX_COMPUTE_UNITS", "CL_DEVICE_MAX_CONSTANT_ARGS",
    "CL_DEVICE_MAX_CONSTANT_BUFFER_SIZE", "CL_DEVICE_MAX_MEM_ALLOC_SIZE",
    "CL_DEVICE_MAX_PARAMETER_SIZE", "CL_DEVICE_MAX_READ_IMAGE_ARGS",
    "CL_DEVICE_MAX_SAMPLERS", "CL_DEVICE_MAX_WORK_GROUP_SIZE",
    "CL_DEVICE_MAX_WORK_ITEM_DIMENSIONS", "CL_DEVICE_MAX_WORK_ITEM_SIZES",
    "CL_DEVICE_MAX_WRITE_IMAGE_ARGS", "CL_DEVICE_MEM_BASE_ADDR_ALIGN",
    "CL_DEVICE_MIN_DATA_TYPE_ALIGN_SIZE", "CL_DEVICE_NAME",
    "CL_DEVICE_NATIVE_VECTOR_WIDTH_CHAR", "CL_DEVICE_NATIVE_VECTOR_WIDTH_SHORT",
    "CL_DEVICE_NATIVE_VECTOR_WIDTH_INT", "CL_DEVICE_NATIVE_VECTOR_WIDTH_LONG",
    "CL_DEVICE_NATIVE_VECTOR_WIDTH_FLOAT", "CL_DEVICE_NATIVE_VECTOR_WIDTH_DOUBLE",
    "CL_DEVICE_NATIVE_VECTOR_WIDTH_HALF", "CL_DEVICE_OPENCL_C_VERSION",
    "CL_DEVICE_PREFERRED_VECTOR_WIDTH_CHAR", "CL_DEVICE_PREFERRED_VECTOR_WIDTH_SHORT",
    "CL_DEVICE_PREFERRED_VECTOR_WIDTH_INT", "CL_DEVICE_PREFERRED_VECTOR_WIDTH_LONG",
    "CL_DEVICE_PREFERRED_VECTOR_WIDTH_FLOAT", "CL_DEVICE_PREFERRED_VECTOR_WIDTH_DOUBLE",
    "CL_DEVICE_PREFERRED_VECTOR_WIDTH_HALF", "CL_DEVICE_PROFILE",
    "CL_DEVICE_PROFILING_TIMER_RESOLUTION", "CL_DEVICE_SINGLE_FP_CONFIG",
    "CL_DEVICE_TYPE", "CL_DEVICE_VENDOR",
    "CL_DEVICE_VENDOR_ID", "CL_DEVICE_VERSION",
    "CL_DRIVER_VERSION"
  >>

clDiag_infos_CL_1_2 ==
  <<
    "CL_DEVICE_ADDRESS_BITS", "CL_DEVICE_AVAILABLE",
    "CL_DEVICE_BUILT_IN_KERNELS", "CL_DEVICE_COMPILER_AVAILABLE",
    "CL_DEVICE_DOUBLE_FP_CONFIG", "CL_DEVICE_ENDIAN_LITTLE",
    "CL_DEVICE_ERROR_CORRECTION_SUPPORT", "CL_DEVICE_EXECUTION_CAPABILITIES",
    "CL_DEVICE_EXTENSIONS", "CL_DEVICE_GLOBAL_MEM_CACHE_SIZE",
    "CL_DEVICE_GLOBAL_MEM_CACHE_TYPE", "CL_DEVICE_GLOBAL_MEM_CACHELINE_SIZE",
    "CL_DEVICE_GLOBAL_MEM_SIZE", "CL_DEVICE_IMAGE2D_MAX_HEIGHT",
    "CL_DEVICE_IMAGE2D_MAX_WIDTH", "CL_DEVICE_IMAGE3D_MAX_DEPTH",
    "CL_DEVICE_IMAGE3D_MAX_HEIGHT", "CL_DEVICE_IMAGE3D_MAX_WIDTH",
    "CL_DEVICE_IMAGE_BASE_ADDRESS_ALIGNMENT", "CL_DEVICE_IMAGE_MAX_ARRAY_SIZE",
    "CL_DEVICE_IMAGE_MAX_BUFFER_SIZE", "CL_DEVICE_IMAGE_PITCH_ALIGNMENT",
    "CL_DEVICE_IMAGE_SUPPORT", "CL_DEVICE_LINKER_AVAILABLE",
    "CL_DEVICE_LOCAL_MEM_SIZE", "CL_DEVICE_LOCAL_MEM_TYPE",
    "CL_DEVICE_MAX_CLOCK_FREQUENCY", "CL_DEVICE_MAX_COMPUTE_UNITS",
    "CL_DEVICE_MAX_CONSTANT_ARGS", "CL_DEVICE_MAX_CONSTANT_BUFFER_SIZE",
    "CL_DEVICE_MAX_MEM_ALLOC_SIZE", "CL_DEVICE_MAX_PARAMETER_SIZE",
    "CL_DEVICE_MAX_READ_IMAGE_ARGS", "CL_DEVICE_MAX_SAMPLERS",
    "CL_DEVICE_MAX_WORK_GROUP_SIZE", "CL_DEVICE_MAX_WORK_ITEM_DIMENSIONS",
    "CL_DEVICE_MAX_WORK_ITEM_SIZES", "CL_DEVICE_MAX_WRITE_IMAGE_ARGS",
    "CL_DEVICE_MEM_BASE_ADDR_ALIGN", "CL_DEVICE_NAME",
    "CL_DEVICE_NATIVE_VECTOR_WIDTH_CHAR", "CL_DEVICE_NATIVE_VECTOR_WIDTH_SHORT",
    "CL_DEVICE_NATIVE_VECTOR_WIDTH_INT", "CL_DEVICE_NATIVE_VECTOR_WIDTH_LONG",
    "CL_DEVICE_NATIVE_VECTOR_WIDTH_FLOAT", "CL_DEVICE_NATIVE_VECTOR_WIDTH_DOUBLE",
    "CL_DEVICE_NATIVE_VECTOR_WIDTH_HALF", "CL_DEVICE_OPENCL_C_VERSION",
    "CL_DEVICE_PARTITION_AFFINITY_DOMAIN", "CL_DEVICE_PARTITION_MAX_SUB_DEVICES",
    "CL_DEVICE_PARTITION_PROPERTIES", "CL_DEVICE_PARTITION_TYPE",
    "CL_DEVICE_PREFERRED_VECTOR_WIDTH_CHAR", "CL_DEVICE_PREFERRED_VECTOR_WIDTH_SHORT",
    "CL_DEVICE_PREFERRED_VECTOR_WIDTH_INT", "CL_DEVICE_PREFERRED_VECTOR_WIDTH_LONG",
    "CL_DEVICE_PREFERRED_VECTOR_WIDTH_FLOAT", "CL_DEVICE_PREFERRED_VECTOR_WIDTH_DOUBLE",
    "CL_DEVICE_PREFERRED_VECTOR_WIDTH_HALF", "CL_DEVICE_PRINTF_BUFFER_SIZE",
    "CL_DEVICE_PROFILE", "CL_DEVICE_PROFILING_TIMER_RESOLUTION",
    "CL_DEVICE_QUEUE_PROPERTIES", "CL_DEVICE_SINGLE_FP_CONFIG",
    "CL_DEVICE_TYPE", "CL_DEVICE_VENDOR",
    "CL_DEVICE_VENDOR_ID", "CL_DEVICE_VERSION",
    "CL_DRIVER_VERSION"
  >>

clDiag_infos_CL_2_0 ==
  <<
    "CL_DEVICE_GLOBAL_VARIABLE_PREFERRED_TOTAL_SIZE", "CL_DEVICE_MAX_GLOBAL_VARIABLE_SIZE",
    "CL_DEVICE_MAX_ON_DEVICE_EVENTS", "CL_DEVICE_MAX_ON_DEVICE_QUEUES",
    "CL_DEVICE_MAX_PIPE_ARGS", "CL_DEVICE_MAX_READ_WRITE_IMAGE_ARGS",
    "CL_DEVICE_PIPE_MAX_ACTIVE_RESERVATIONS", "CL_DEVICE_PIPE_MAX_PACKET_SIZE",
    "CL_DEVICE_PREFERRED_GLOBAL_ATOMIC_ALIGNMENT", "CL_DEVICE_PREFERRED_INTEROP_USER_SYNC",
    "CL_DEVICE_PREFERRED_LOCAL_ATOMIC_ALIGNMENT", "CL_DEVICE_PREFERRED_PLATFORM_ATOMIC_ALIGNMENT",
    "CL_DEVICE_QUEUE_ON_DEVICE_MAX_SIZE", "CL_DEVICE_QUEUE_ON_DEVICE_PREFERRED_SIZE",
    "CL_DEVICE_QUEUE_ON_DEVICE_PROPERTIES", "CL_DEVICE_QUEUE_ON_HOST_PROPERTIES",
    "CL_DEVICE_SVM_CAPABILITIES"
  >>

\* clDiag.cpp, GatherDeviceInfo: the tables handed to GetProperties, one call
\* after the other, for a device version
clDiag_Fetched(version) ==
  (IF VersionEq(version, Version(1, 0)) THEN clDiag_infos_CL_1_0
   ELSE IF VersionEq(version, Version(1, 1)) THEN clDiag_infos_CL_1_1
   ELSE IF VersionGe(version, Version(1, 2)) THEN clDiag_infos_CL_1_2
   ELSE <<>>)
  \o (IF VersionGe(version, Version(2, 0)) THEN clDiag_infos_CL_2_0 ELSE <<>>)

\* the two GatherDeviceInfo implementations are asked for the attributes of
\* a device of some version
FetchedCalls ==
  {[fn |-> "GatherDeviceInfo", version |-> v, done |-> FALSE, library |-> {}, diag |-> {}] :
     v \in VersionUniverse}

\* both implementations select and fetch their attributes
Call_FetchedSets ==
  /\ unit.fn = "GatherDeviceInfo"
  /\ ~unit.done
  /\ unit' = [unit EXCEPT
       !.done = TRUE,
       !.library = {PropertiesToFetch(unit.version)[k].n :
                      k \in 1..Len(PropertiesToFetch(unit.version))},
       !.diag = {clDiag_Fetched(unit.version)[k] :
                   k \in 1..Len(clDiag_Fetched(unit.version))}]
  /\ UNCHANGED <<lib, decoders, program>>

\* C25: for every device version, the diagnostic program and the library
\* fetch the same set of device attribute identifiers.
C25_Converged ==
  (unit.fn = "GatherDeviceInfo" /\ unit.done) => unit.diag = unit.library

\* the versions on which the two implementations fetch the same set
C25_ConvergedOn ==
  (unit.fn = "GatherDeviceInfo" /\ unit.done /\ unit.diag = unit.library)
    => \/ unit.version \in {Version(1, 1), Version(1, 2)}
       \/ VersionGe(unit.version, Version(2, 0))

-----------------------------------------------------------------------------
(* The devices of a platform of which one cannot be gathered               *)

\* the devices of the platform whose device loop is followed
MaxLoopDevices == 3

\* a platform of MaxLoopDevices devices; no call fails, or the version query
\* of one of the devices does
LoopWorlds ==
  {[platforms |-> <<[devices |-> [d \in 1..MaxLoopDevices |-> BaseVersion]]>>,
    formats |-> 0, fault |-> x, memory |-> Unlimited] :
     x \in {NoFault} \cup {Fault("clGetDeviceInfo", <<1, d>>, "CL_DEVICE_VERSION", k) :
                             d \in 1..MaxLoopDevices, k \in FailKinds}}

DeviceLoopCalls == [fn : {"GatherOpenCLInfo"}, done : {FALSE}, heap : {<<>>}, root : {NULL}]

\* cliNode* GatherOpenCLInfo (Pool<>& pool), called on an empty pool
Call_GatherOpenCLInfo ==
  /\ unit.fn = "GatherOpenCLInfo"
  /\ ~unit.done
  /\ unit' = With([g \in {GatherOpenCLInfo(Fresh, world)} |->
               [unit EXCEPT !.done = TRUE, !.heap = g.m.heap, !.root = g.result]])
  /\ UNCHANGED <<lib, decoders, program>>

\* the devices for which GatherDeviceInfo returned a node: the driver
\* answered their version query
Gathered(w) ==
  SelectSeq([d \in 1..Len(w.platforms[1].devices) |-> <<1, d>>],
            LAMBDA id : w.fault.site = "none" \/ w.fault.obj # id)

\* the nodes under the "Devices" node of the first platform, in list order
LoopDeviceNodes ==
  Children(unit.heap, unit.heap[unit.heap[unit.root].firstChild].firstChild)

\* C26: every device for which GatherDeviceInfo returned a node is a child
\* of its platform's "Devices" node after the gather, in enumeration order,
\* also when GatherDeviceInfo returned null for another device of the
\* platform.
C26_DevicesReachable ==
  (unit.fn = "GatherOpenCLInfo" /\ unit.done /\ unit.root # NULL) =>
    /\ Len(LoopDeviceNodes) = Len(Gathered(world))
    /\ \A k \in 1..Len(LoopDeviceNodes) :
         ValuesOf(unit.heap[LoopDeviceNodes[k]], "CL_DEVICE_NAME")
           = {StringValue(HandleName(Gathered(world)[k]))}

\* what the loop leaves: a device that could not be gathered ends the list
\* and the next device starts it anew, so the children of "Devices" are the
\* devices after the failed one, or the devices before it when it was the
\* last
C26_DevicesAfterFailure ==
  (unit.fn = "GatherOpenCLInfo" /\ unit.done /\ unit.root # NULL) =>
    LET after == SelectSeq(Gathered(world),
                   LAMBDA id : \/ world.fault.site = "none"
                                \/ id[2] > world.fault.obj[2]
                                \/ world.fault.obj[2] = MaxLoopDevices)
    IN  /\ Len(LoopDeviceNodes) = Len(after)
        /\ \A k \in 1..Len(LoopDeviceNodes) :
             ValuesOf(unit.heap[LoopDeviceNodes[k]], "CL_DEVICE_NAME")
               = {StringValue(HandleName(after[k]))}

-----------------------------------------------------------------------------
(* Property names of a node                                                *)

\* C27: no node of a gathered tree has two properties with the same name.
C27_DistinctPropertyNames ==
  (ret.fn = "cliInfo_Gather" /\ info.root # NULL) =>
    \A n \in TreeNodes(heap, info.root) :
      \A j, k \in 1..Len(heap[n].firstProperty) :
        heap[n].firstProperty[j].name = heap[n].firstProperty[k].name => j = k

\* what holds instead: the Device node of a device of version 1.1, or of a
\* version that selects no table of its own, has no name twice; a device of
\* version 1.0 has CL_DEVICE_MEM_BASE_ADDR_ALIGN twice and a device of
\* version 1.2 or >= 2.0 has CL_DEVICE_IMAGE_SUPPORT twice
C27_RepeatedNames ==
  GatheredClean =>
    \A p \in 1..Len(PlatformNodes) : \A d \in 1..Len(DeviceNodes(p)) :
      LET names == PropertyNames(heap[DeviceNodes(p)[d]])
          twice == {names[j] : j \in {i \in 1..Len(names) : Count(names, names[i]) > 1}}
          v == VersionOf(p, d)
      IN  twice = IF VersionEq(v, Version(1, 0)) THEN {"CL_DEVICE_MEM_BASE_ADDR_ALIGN"}
                  ELSE IF VersionEq(v, Version(1, 2)) \/ VersionGe(v, Version(2, 0))
                         THEN {"CL_DEVICE_IMAGE_SUPPORT"}
                  ELSE {}

-----------------------------------------------------------------------------
(* Brackets of the JSON output                                             *)

\* the brackets of a character sequence, in order
BracketBytes(bytes) ==
  LET found == SelectSeq(bytes, LAMBDA c : c \in {123, 125, 91, 93})
  IN  [k \in 1..Len(found) |->
         CASE found[k] = 123 -> "{" [] found[k] = 125 -> "}"
           [] found[k] = 91 -> "[" [] found[k] = 93 -> "]"]

\* the brackets of a piece of the output, in order
Brackets(t) ==
  CASE t.lit = "{ \"" -> <<"{">>
    [] t.lit = "\" : {" -> <<"{">>
    [] t.lit = "{}" -> <<"{", "}">>
    [] t.lit = "}" -> <<"}">>
    [] t.lit = "\" = [" -> <<"[">>
    [] t.lit = "]" -> <<"]">>
    [] OTHER -> BracketBytes(t.bytes)

\* the brackets of an output, in order
BracketsOf(output) ==
  Flatten([k \in 1..Len(SelectSeq(output, LAMBDA t : Brackets(t) # <<>>)) |->
             Brackets(SelectSeq(output, LAMBDA t : Brackets(t) # <<>>)[k])])

RECURSIVE Nested(_, _, _)
\* the brackets from position k on close the open brackets of the stack and
\* their own, each with the bracket of its kind, and leave none open
Nested(brackets, k, stack) ==
  IF k > Len(brackets) THEN stack = <<>>
  ELSE IF brackets[k] \in {"{", "["} THEN Nested(brackets, k + 1, <<brackets[k]>> \o stack)
  ELSE /\ stack # <<>>
       /\ Head(stack) = (IF brackets[k] = "}" THEN "{" ELSE "[")
       /\ Nested(brackets, k + 1, Tail(stack))

\* C28: the output of JsonPrinter is bracket-balanced: every '{' and '[' is
\* matched by a later '}' or ']' in properly nested order, and the output
\* ends with depth 0.
C28_Balanced ==
  (unit.fn = "JsonPrinter" /\ unit.done) => Nested(BracketsOf(unit.output), 1, <<>>)

\* what holds instead: OnNode opens two braces and closes one, so the output
\* ends with one open brace per node of the tree
C28_OneOpenPerNode ==
  (unit.fn = "JsonPrinter" /\ unit.done) =>
    LET b == BracketsOf(unit.output)
    IN  Cardinality({k \in 1..Len(b) : b[k] = "{"})
          - Cardinality({k \in 1..Len(b) : b[k] = "}"})
        = Cardinality(TreeNodes(unit.heap, unit.root))

-----------------------------------------------------------------------------
(* The scans of ParseVersion                                               *)

\* the NUL-terminated strings ParseVersion is called with: every string of
\* at most MaxLen characters out of space, '.', a digit and a letter, and
\* "OpenCL 1.2", each with its NUL
ScannedStrings ==
  {t \o <<NUL>> : t \in Texts({SPACE, DOT, 49, 120}, MaxLen)}
  \cup {<<79, 112, 101, 110, 67, 76, SPACE, 49, DOT, 50, NUL>>}

ScanCalls ==
  {[fn |-> "ParseVersion scans", s |-> str, done |-> FALSE, scans |-> <<>>,
    aborted |-> FALSE, result |-> Version(0, 0)] : str \in ScannedStrings}

\* where the three while loops of ParseVersion stop: a position in the
\* string, or the position after its NUL when the loop has read the NUL
\* without finding its character and goes on in the memory behind the string
Scans(s) ==
  <<ScanTo(s, 1, SPACE),
    ScanTo(s, ScanTo(s, 1, SPACE) + 1, DOT),
    ScanTo(s, ScanTo(s, ScanTo(s, 1, SPACE) + 1, DOT) + 1, SPACE)>>

\* every read of the three loops is a read of the string
InBounds(s) == \A k \in 1..3 : Scans(s)[k] <= Len(s)

\* ParseVersion (s): a loop that leaves the string reads memory that is not
\* the caller's (undefined: the program aborts, or the loops stop somewhere
\* and any version is returned); otherwise as in Call_ParseVersion
Call_ParseVersionScans ==
  /\ unit.fn = "ParseVersion scans"
  /\ ~unit.done
  /\ IF InBounds(unit.s) /\ FieldsFit(unit.s)
       THEN unit' = [unit EXCEPT !.done = TRUE, !.scans = Scans(unit.s),
                                 !.result = ParseVersion(unit.s)]
       ELSE \/ unit' = [unit EXCEPT !.done = TRUE, !.scans = Scans(unit.s),
                                    !.aborted = TRUE]
            \/ \E v \in VersionUniverse :
                 unit' = [unit EXCEPT !.done = TRUE, !.scans = Scans(unit.s),
                                      !.result = v]
  /\ UNCHANGED <<lib, decoders, program>>

\* C29: ParseVersion never reads outside its input: for every
\* NUL-terminated string each of its three scans stops at or before the
\* terminating NUL, and the copied major and minor fields fit their 16-byte
\* arrays.
C29_ScansStopAtNul ==
  (unit.fn = "ParseVersion scans" /\ unit.done) =>
    /\ \A k \in 1..3 : unit.scans[k] <= Len(unit.s)
    /\ unit.scans[2] - (unit.scans[1] + 1) < VersionBytes
    /\ unit.scans[3] - (unit.scans[2] + 1) < VersionBytes

\* what holds instead: the scans stay inside the string exactly when it
\* holds a space, a '.' after it and a space after that
C29_InBoundsWhenDelimited ==
  (unit.fn = "ParseVersion scans" /\ unit.done) =>
    ((\A k \in 1..3 : unit.scans[k] <= Len(unit.s))
      <=> \E a, b, c \in 1..Len(unit.s) :
            /\ a < b /\ b < c
            /\ unit.s[a] = SPACE /\ unit.s[b] = DOT /\ unit.s[c] = SPACE)

-----------------------------------------------------------------------------
(* Pool::Allocate, call after call on one pool                             *)

\* the calls made on the pool
MaxAllocations == 4

\* the sizes asked for: small ones, the size of a node, half a block and one
\* byte more, the largest size accepted, and the two kinds of size refused
PoolSizes ==
  {1, 9, SizeofNode, BlockSize \div 2, BlockSize \div 2 + 1, BlockSize - 1, BlockSize, 0 - 1}

\* a pool after construction; regions holds, per pointer returned, the block
\* and offset it points to, the size asked for and the pool members before
\* the call
PoolCalls ==
  {[fn |-> "Pool::Allocate", pool |-> EmptyPool, regions |-> <<>>, calls |-> 0,
    threw |-> FALSE]}

\* void* Pool::Allocate (int size)
Call_PoolAllocate ==
  /\ unit.fn = "Pool::Allocate"
  /\ unit.calls < MaxAllocations
  /\ \E size \in PoolSizes :
       IF AllocateThrows(size)
         THEN unit' = [unit EXCEPT !.calls = @ + 1, !.threw = TRUE]
         ELSE unit' = With([a \in {PoolAllocate(unit.pool, size)} |->
                [unit EXCEPT
                   !.calls = @ + 1,
                   !.threw = FALSE,
                   !.pool = a.pool,
                   !.regions = Append(@, [block |-> a.result \div BlockSize,
                                          offset |-> a.result % BlockSize,
                                          size |-> size,
                                          before |-> unit.pool])]])
  /\ UNCHANGED <<lib, decoders, program>>

\* two returned regions have no byte in common
Disjoint(r, q) ==
  \/ r.block # q.block
  \/ r.offset + r.size <= q.offset
  \/ q.offset + q.size <= r.offset

\* C30: after any sequence of successful allocations the offset of the
\* current block is a multiple of 8 and at most the block size; every
\* returned region starts at an offset that is a multiple of 8 and lies
\* inside one block; no two returned regions overlap; a request that does
\* not fit in the rest of the current block is served from offset 0 of a
\* new block, and no later region lies in an earlier block.
C30_PoolInvariants ==
  unit.fn = "Pool::Allocate" =>
    /\ unit.pool.offset % 8 = 0
    /\ unit.pool.offset <= BlockSize
    /\ \A k \in 1..Len(unit.regions) :
         LET r == unit.regions[k]
         IN  /\ r.offset % 8 = 0
             /\ r.block >= 1
             /\ r.offset + r.size <= BlockSize
             /\ r.before.offset + r.size > BlockSize
                  => (r.offset = 0 /\ r.block = r.before.blocks + 1)
             /\ r.before.offset + r.size <= BlockSize
                  => (r.offset = r.before.offset /\ r.block = r.before.blocks)
    /\ \A j, k \in 1..Len(unit.regions) :
         j < k => /\ Disjoint(unit.regions[j], unit.regions[k])
                  /\ unit.regions[j].block <= unit.regions[k].block

\* C30 witness: three regions were returned, the second next to the first in
\* one block, the third from offset 0 of a new block because it did not fit
\* in a rest that was not empty
C30_SecondBlock ==
  /\ unit.fn = "Pool::Allocate"
  /\ Len(unit.regions) = 3
  /\ unit.regions[1].size = 9
  /\ unit.regions[2].block = unit.regions[1].block
  /\ unit.regions[2].offset = 16
  /\ unit.regions[3].before.offset < BlockSize
  /\ unit.regions[3].block = unit.regions[2].block + 1
  /\ unit.regions[3].offset = 0

-----------------------------------------------------------------------------
(* CreateCharList calls running side by side, each on a buffer and a pool  *)
(* of its own; a step is one pass of the tokenizer's outer loop            *)

\* the number of decoders that run side by side
MaxDecoders == 2

\* a decoder at the entry of CreateCharList: char* p = buffer, result = nullptr
Decoder(text) ==
  [input |-> Append(text, NUL), buffer |-> Append(text, NUL), p |-> 1,
   pool |-> EmptyPool, result |-> <<>>, done |-> FALSE]

\* a tokenizer that keeps its position in one place for every call (strtok)
Cursor_Shared(ds, i) == ds[1].p

\* char* p: a local variable of the call
Cursor(ds, i) == ds[i].p

\* if (*p == ' ') { *p = '\0'; ... }: the buffer after the pass that scanned
\* to position p
Terminated(buffer, p) ==
  IF CharAt(buffer, p) = SPACE THEN [buffer EXCEPT ![p] = NUL] ELSE buffer

\* one pass of while (*p != '\0') { ... } by decoder i, or the return
DecodeStep(i) ==
  /\ ~decoders[i].done
  /\ IF CharAt(decoders[i].buffer, Cursor(decoders, i)) = NUL
       THEN decoders' = [decoders EXCEPT ![i].done = TRUE]
       ELSE \E s \in {Cursor(decoders, i)} :
            \E p \in {ScanToken(decoders[i].buffer, s)} :
            \E value \in {CreateValueString(
                            Machine(decoders[i].pool, <<>>, {}, Unlimited),
                            CStringAt(Terminated(decoders[i].buffer, p), s))} :
              decoders' = [decoders EXCEPT
                             ![i].buffer = Terminated(decoders[i].buffer, p),
                             ![i].p = AfterToken(decoders[i].buffer, p),
                             ![i].pool = value.m.pool,
                             ![i].result = @ \o value.result]
  /\ UNCHANGED <<lib, unit, program>>

InitDecoders ==
  /\ world = NoDriver
  /\ LibIdle
  /\ unit = NoCall
  /\ program = NoProgram
  /\ decoders \in [1..MaxDecoders -> {Decoder(t) : t \in Texts({65, SPACE}, MaxLen - 1)}]

NextDecoders == \E i \in 1..MaxDecoders : DecodeStep(i)

SpecDecoders == InitDecoders /\ [][NextDecoders]_vars

\* C19: decoders that run side by side on buffers and pools of their own,
\* interleaved at any pass, each return exactly the value list that
\* CreateCharList returns for their buffer when it runs alone.
C19_Reentrant ==
  \A i \in DOMAIN decoders :
    decoders[i].done =>
      decoders[i].result =
        CreateCharList(Fresh, decoders[i].input, Len(decoders[i].input)).result

\* C19 witness: two decoders with the buffers "A A" and "AA " have both
\* returned, the first with two values and the second with one
C19_BothDone ==
  /\ decoders # NoDecoders
  /\ decoders[1].done /\ decoders[2].done
  /\ decoders[1].input = <<65, SPACE, 65, NUL>>
  /\ decoders[2].input = <<65, 65, SPACE, NUL>>
  /\ Len(decoders[1].result) = 2 /\ Len(decoders[2].result) = 1

-----------------------------------------------------------------------------
(* The command-line program: main creates the document, gathers, asks for  *)
(* the root and hands it to the printer its argument selects               *)

\* the drivers main runs on: no platform, or one platform with one device
\* on which any one call misbehaves or no block can be allocated
MainWorlds ==
  {NoDriver, [OneDevice EXCEPT !.memory = Limited(0)]}
  \cup {[OneDevice EXCEPT !.fault = f] : f \in FaultsOf(OneDevice.platforms)}

\* argv [1..argc-1]: nothing, -x, -j, -c, -z, x, and -j -x
Arguments ==
  {<<>>, <<<<45, 120>>>>, <<<<45, 106>>>>, <<<<45, 99>>>>, <<<<45, 122>>>>,
   <<<<120>>>>, <<<<45, 106>>, <<45, 120>>>>}

\* the printer main calls for its arguments, "" when it calls none
PrinterOf(argv) ==
  IF Len(argv) = 1
    THEN IF CharAt(argv[1], 1) = 45
           THEN CASE CharAt(argv[1], 2) = 120 -> "XmlPrinter"
                  [] CharAt(argv[1], 2) = 106 -> "JsonPrinter"
                  [] CharAt(argv[1], 2) = 99 -> "ConsolePrinter"
                  [] OTHER -> ""
           ELSE ""
    ELSE "ConsolePrinter"

\* main after cliInfo_Create (&info)
Started ==
  [pc |-> "cliInfo_Gather", printer |-> "", handed |-> NULL, printed |-> "nothing",
   code |-> 0]

\* cliInfo_Gather (info); the returned status is dropped
Main_Gather ==
  /\ program.pc = "cliInfo_Gather"
  /\ GatherCall
  /\ program' = [program EXCEPT !.pc = "cliInfo_GetRoot"]
  /\ UNCHANGED <<unit, decoders>>

\* struct cliNode* root; cliInfo_GetRoot (info, &root); the returned status
\* is dropped and root keeps its indeterminate value when the call fails
Main_GetRoot ==
  /\ program.pc = "cliInfo_GetRoot"
  /\ ret' = Returned("cliInfo_GetRoot", GetRootStatus(info, FALSE, FALSE), FALSE, FALSE)
  /\ out' = IF GetRootStatus(info, FALSE, FALSE) = CLI_Success THEN info.root ELSE out
  /\ queryLog' = <<>>
  /\ program' = [program EXCEPT !.pc = "Write"]
  /\ UNCHANGED <<world, info, heap, open, gathers, unit, decoders>>

\* the if (argc == 2) statement, cliInfo_Destroy and return 0: a printer
\* that is handed a tree writes it; a printer that is handed the
\* indeterminate pointer reads through it, and the program is killed or
\* writes whatever it finds and goes on
Main_Write ==
  /\ program.pc = "Write"
  /\ \E argv \in Arguments :
       IF PrinterOf(argv) = ""
         THEN program' = [program EXCEPT !.pc = "exited", !.code = 0]
       ELSE IF out # Indeterminate
         THEN program' = [program EXCEPT !.pc = "exited", !.code = 0,
                                         !.printer = PrinterOf(argv),
                                         !.handed = out, !.printed = "tree"]
       ELSE \/ program' = [program EXCEPT !.pc = "killed",
                                          !.printer = PrinterOf(argv), !.handed = out]
            \/ program' = [program EXCEPT !.pc = "exited", !.code = 0,
                                          !.printer = PrinterOf(argv),
                                          !.handed = out, !.printed = "garbage"]
  /\ UNCHANGED <<lib, unit, decoders>>

InitMain ==
  /\ world \in MainWorlds
  /\ LibIdle
  /\ unit = NoCall
  /\ decoders = NoDecoders
  /\ program = Started

NextMain == Main_Gather \/ Main_GetRoot \/ Main_Write

SpecMain == InitMain /\ [][NextMain]_vars

\* C11: when gathering fails the program exits with code 1 and prints no
\* tree output; it exits with code 0 only after a gathered tree has been
\* printed; it never hands an unset root pointer to a printer.
C11_ExitCodeReflectsGather ==
  /\ (program.pc \in {"exited", "killed"} /\ info.root = NULL) =>
       (program.pc = "exited" /\ program.code = 1 /\ program.printed = "nothing")
  /\ (program.pc = "exited" /\ program.code = 0) => (program.printed = "tree")
  /\ (program.pc # "none") => (program.handed # Indeterminate)

-----------------------------------------------------------------------------
(* The calls specification                                                 *)

InitCalls ==
  /\ LibIdle
  /\ decoders = NoDecoders
  /\ program = NoProgram
  /\ \/ world = NoDriver /\ unit \in CharListCalls
     \/ world = NoDriver /\ unit \in BitfieldCalls
     \/ \E c \in GetValueCalls : world = c.world /\ unit = c.unit
     \/ world = OneDevice /\ unit \in PropertyCalls
     \/ world = NoDriver /\ unit \in VersionCalls
     \/ world = NoDriver /\ unit \in JsonCalls
     \/ world = NoDriver /\ unit \in CompareCalls
     \/ world = NoDriver /\ unit \in IntegerCalls
     \/ world = NoDriver /\ unit \in XmlCalls
     \/ world = NoDriver /\ unit \in FetchedCalls
     \/ world \in LoopWorlds /\ unit \in DeviceLoopCalls
     \/ world = NoDriver /\ unit \in ScanCalls
     \/ world = NoDriver /\ unit \in PoolCalls

NextCalls ==
  \/ Call_CreateCharList
  \/ Call_CreateBitfield
  \/ Call_GetValue
  \/ Call_GetProperties
  \/ Call_ParseVersion
  \/ Call_JsonWrite
  \/ Call_VersionCompare
  \/ Call_CreateInteger
  \/ Call_XmlWrite
  \/ Call_FetchedSets
  \/ Call_GatherOpenCLInfo
  \/ Call_ParseVersionScans
  \/ Call_PoolAllocate

SpecCalls == InitCalls /\ [][NextCalls]_vars
=============================================================================
